---- MODULE Spec2Model ----
(***************************************************************************)
(* Verification model of the logistics AI assistant backend.               *)
(*                                                                         *)
(* Part 1: the conversational agent (backend/app/ai/agent.py) behind the   *)
(* AI router (backend/app/routers/ai.py).  LogisticsAIAgent owns ONE       *)
(* ConversationBufferMemory (self.memory) and ONE AgentExecutor configured *)
(* with max_iterations=5, max_execution_time=30, handle_parsing_errors and *)
(* return_intermediate_steps.  chat() awaits executor.ainvoke inside a     *)
(* try/except Exception.  The executor loop modelled here is the loop the  *)
(* configuration at agent.py:81-90 selects: load memory, then while the    *)
(* iteration and time budgets allow: call the model, finish on a final     *)
(* answer, otherwise run the requested tool and record the step; on a      *)
(* spent budget return the stop message as the output; save               *)
(* (input, output) to memory only when the run returns.                    *)
(***************************************************************************)
EXTENDS Integers, Sequences, FiniteSets, TLC

\* ---------------------------------------------------------------- bounds
MaxInFlight == 1      \* chat requests in flight at once (Spec)
MaxThreads == 2       \* worker threads resolving the get_ai_agent dependency at once
MaxOpenSessions == 2  \* database sessions left open before the model stops invoking tools
MaxExchanges == 2     \* exchanges the memory may hold (saved plus in flight) when a chat starts

\* ------------------------------------------------------ program constants
max_iterations == 5          \* agent.py:86
max_execution_time == 30     \* agent.py:87
OutputLimit == 200           \* agent.py:179  str(observation)[:200]

None == "None"

\* agent.py:50-56  self.tools
ToolRegistry ==
    {"get_shipment_status", "calculate_shipping_cost", "find_nearest_warehouse",
     "estimate_delivery_time", "search_shipments"}

\* agent.py:163  the fixed apology of the except branch
Apology == "I apologize, but I encountered an error processing your request. Please try again or rephrase your question."

\* the fixed output the executor gives a run it stops on a spent budget
\* (agent.py:86-87); it is returned like any other output
StoppedOutput == "Agent stopped due to max iterations."

\* conversation ids a request may carry (ChatRequest.conversation_id is Optional)
ConversationIds == {"A", "B"}
Messages == {"q1"}

Min(a, b) == IF a < b THEN a ELSE b

VARIABLES
    chat_history,   \* self.memory: the one message list of the agent
    calls,          \* in-flight chat() invocations, one per request slot
    last_op,        \* the last operation that ran: a clear of a conversation, or anything else
    repertoire,     \* the tool requests the language model under test may produce
    store,          \* the data store the tools query: shipments and warehouses
    open_sessions,  \* database sessions opened by tools and not closed
    tool_result,    \* what the last tool invocation handed back to its caller
    _ai_agent,      \* routers/ai.py:32  module global
    _rag_instance,  \* rag.py:328  module global
    threads,        \* worker threads running the get_ai_agent dependency
    constructed,    \* how many LogisticsAIAgent / LogisticsRAG objects were built
    rag_returned,   \* the instances get_rag_system has returned
    docs_directory, \* rag.py:33  what ./docs holds on disk
    vector_store,   \* rag.py:49  the persisted collection: its chunks in insertion order
    rag_state,      \* whether LogisticsRAG() has been constructed, and how that ended
    rag_result,     \* what the last operation on the retrieval subsystem handed back
    DEBUG,          \* config.py:17  settings.DEBUG
    http_exchange,  \* the last request served by an AI endpoint, and its response
    db_shipments,   \* models/shipment.py:27  the shipments table, rows in primary-key order
    next_shipment_id, \* models/shipment.py:30  the next primary key the table hands out
    db_writes,      \* how many requests have changed the table
    ship_exchange,  \* the last request served by a shipment endpoint, and its response
    splitter        \* rag.py:122-129  the text splitter at work on one document

agentVars == <<chat_history, calls, last_op, repertoire>>
toolVars == <<store, open_sessions, tool_result>>
singletonVars == <<_ai_agent, _rag_instance, threads, constructed, rag_returned>>
ragVars == <<docs_directory, vector_store, rag_state, rag_result>>
httpVars == <<DEBUG, http_exchange>>
shipmentVars == <<db_shipments, next_shipment_id, db_writes, ship_exchange>>
vars == <<agentVars, toolVars, singletonVars, ragVars, httpVars, shipmentVars, splitter>>
\* what the actions of one part leave alone
notAgentVars == <<toolVars, singletonVars, ragVars, httpVars, shipmentVars, splitter>>
notToolVars == <<agentVars, singletonVars, ragVars, httpVars, shipmentVars, splitter>>
notSingletonVars == <<agentVars, toolVars, ragVars, httpVars, shipmentVars, splitter>>
notRagVars == <<agentVars, toolVars, singletonVars, httpVars, shipmentVars, splitter>>
notHttpVars == <<agentVars, toolVars, singletonVars, ragVars, shipmentVars, splitter>>
notShipmentVars == <<agentVars, toolVars, singletonVars, ragVars, httpVars, splitter>>

Slots == DOMAIN calls

IdleCall ==
    [pc |-> "idle", conversation_id |-> None, message |-> None,
     iterations |-> 0, model_calls |-> 0, intermediate_steps |-> <<>>,
     pending |-> None, state |-> None, after_clear |-> FALSE,
     appended |-> <<>>, response |-> None]

\* A turn of the memory.  role and content are the message; conv records
\* the conversation id of the chat() run that saved it.
Turn(role, content, conv) ==
    [role |-> role, content |-> content, conv |-> conv]

\* ConversationBufferMemory(output_key="output").save_context: one human
\* turn with the input and one AI turn with the output; no tool turn.
SaveContextDropsInput(hist, message, output, conv) ==
    hist \o <<Turn("ai", output, conv)>>
SaveContextKeepsLast(hist, message, output, conv) ==
    <<Turn("human", message, conv), Turn("ai", output, conv)>>
SaveContext(hist, message, output, conv) ==
    hist \o <<Turn("human", message, conv), Turn("ai", output, conv)>>

\* agent.py:168-181  _extract_sources
ExtractSources(steps) ==
    [i \in 1..Len(steps) |->
        [tool |-> steps[i].action.tool,
         input |-> steps[i].action.tool_input,
         output |-> [text |-> steps[i].observation.text,
                     len |-> Min(steps[i].observation.len, OutputLimit)]]]

\* agent.py:150-155  the response of a run that returned
SuccessResponse(output, conversation_id, steps) ==
    [message |-> output,
     conversation_id |-> IF conversation_id = None THEN "new" ELSE conversation_id,
     tokens_used |-> None,
     sources |-> ExtractSources(steps)]

\* agent.py:160-166  the response of the except branch
ErrorResponseRawFault(conversation_id, e) ==
    [message |-> e,
     conversation_id |-> IF conversation_id = None THEN "new" ELSE conversation_id,
     error |-> e]
ErrorResponse(conversation_id, e) ==
    [message |-> Apology,
     conversation_id |-> IF conversation_id = None THEN "new" ELSE conversation_id,
     error |-> e]

\* the executor's budget test before each model call (agent.py:86-87)
ShouldContinueOffByOne(iterations) == iterations <= max_iterations
ShouldContinue(iterations) == iterations < max_iterations

\* ------------------------------------------------- the model under test
\* What the language model may ask for, one tool call per response.
\* valid = the arguments satisfy the tool's schema (tools.py:51 needs
\* origin, destination and weight_kg).
RequestKnown ==
    [tool |-> "search_shipments", tool_input |-> "status", valid |-> TRUE]
RequestMissingArg ==
    [tool |-> "calculate_shipping_cost", tool_input |-> "origin", valid |-> FALSE]
RequestUnknown ==
    [tool |-> "track_package", tool_input |-> "id", valid |-> TRUE]
RequestKinds == {"known", "missing_arg", "unknown"}
RequestOf(kind) ==
    CASE kind = "known" -> RequestKnown
      [] kind = "missing_arg" -> RequestMissingArg
      [] kind = "unknown" -> RequestUnknown

\* observation strings the executor records; len is the string's length
ToolObservation(request) == [text |-> "tool result", len |-> 250]
InvalidToolObservation(request) == [text |-> "is not a valid tool", len |-> 90]
ParseErrorObservation == [text |-> "Invalid or incomplete response", len |-> 30]

Step(tool, tool_input, observation) ==
    [action |-> [tool |-> tool, tool_input |-> tool_input],
     observation |-> observation]

InFlight == {c \in Slots : calls[c].pc \in {"AwaitingModel", "DispatchingTool"}}

Other == [op |-> "other", conv |-> None]

\* ------------------------------------------------------------- actions
\* routers/ai.py:43-71 -> agent.py:130-147: chat() enters executor.ainvoke,
\* which loads the memory into the prompt (agent.py:59-64, 74-78).
ChatStart(c) ==
    /\ calls[c].pc = "idle"
    /\ \A d \in Slots : d < c => calls[d].pc # "idle"
    /\ Len(chat_history) \div 2 + Cardinality(InFlight) < MaxExchanges
    /\ \E conv \in ConversationIds, m \in Messages :
         calls' = [calls EXCEPT ![c] =
                     [IdleCall EXCEPT !.pc = "AwaitingModel",
                                      !.conversation_id = conv,
                                      !.message = m,
                                      !.after_clear =
                                          (last_op.op = "clear" /\ last_op.conv = conv)]]
    /\ last_op' = Other
    /\ UNCHANGED <<chat_history, repertoire, notAgentVars>>

\* The run returns `output`: memory.save_context, then agent.py:150-158.
ReturnOutput(c, output, state, asked) ==
    LET call == calls[c] IN
    /\ chat_history' = SaveContext(chat_history, call.message, output,
                                   call.conversation_id)
    /\ calls' = [calls EXCEPT ![c] =
                   [call EXCEPT !.pc = "returned",
                                !.state = state,
                                !.pending = None,
                                !.model_calls = @ + asked,
                                !.appended = SaveContext(<<>>, call.message, output,
                                                         call.conversation_id),
                                !.response = SuccessResponse(output, call.conversation_id,
                                                             call.intermediate_steps)]]
    /\ last_op' = Other
    /\ UNCHANGED <<repertoire, notAgentVars>>

\* An exception leaves executor.ainvoke: nothing is saved; agent.py:160-166.
RaiseToChat(c, e, asked) ==
    LET call == calls[c] IN
    /\ calls' = [calls EXCEPT ![c] =
                   [call EXCEPT !.pc = "returned",
                                !.state = "Aborted",
                                !.pending = None,
                                !.model_calls = @ + asked,
                                !.response = ErrorResponse(call.conversation_id, e)]]
    /\ last_op' = Other
    /\ UNCHANGED <<chat_history, repertoire, notAgentVars>>

\* One more recorded step, one more iteration, back to the model.
RecordStepForgets(c, step, asked) ==
    LET call == calls[c] IN
    /\ calls' = [calls EXCEPT ![c] =
                   [call EXCEPT !.pc = "AwaitingModel",
                                !.pending = None]]
    /\ last_op' = Other
    /\ UNCHANGED <<chat_history, repertoire, notAgentVars>>
RecordStep(c, step, asked) ==
    LET call == calls[c] IN
    /\ calls' = [calls EXCEPT ![c] =
                   [call EXCEPT !.pc = "AwaitingModel",
                                !.pending = None,
                                !.model_calls = @ + asked,
                                !.iterations = @ + 1,
                                !.intermediate_steps = Append(@, step)]]
    /\ last_op' = Other
    /\ UNCHANGED <<chat_history, repertoire, notAgentVars>>

\* The model answers in natural language: the run is Done.
ModelFinalAnswer(c) ==
    /\ calls[c].pc = "AwaitingModel"
    /\ ShouldContinue(calls[c].iterations)
    /\ ReturnOutput(c, "answer", "Done", 1)

\* The model asks for a tool.
ModelRequestsTool(c) ==
    /\ calls[c].pc = "AwaitingModel"
    /\ ShouldContinue(calls[c].iterations)
    /\ \E kind \in repertoire \cap RequestKinds :
         calls' = [calls EXCEPT ![c] = [@ EXCEPT !.pc = "DispatchingTool",
                                                 !.model_calls = @ + 1,
                                                 !.pending = RequestOf(kind)]]
    /\ last_op' = Other
    /\ UNCHANGED <<chat_history, repertoire, notAgentVars>>

\* The model call fails (network, quota, ...): the exception reaches chat().
ModelCallFails(c) ==
    /\ calls[c].pc = "AwaitingModel"
    /\ ShouldContinue(calls[c].iterations)
    /\ RaiseToChat(c, "model unavailable", 1)

\* The model's response cannot be parsed; handle_parsing_errors=True
\* (agent.py:88) turns it into a step of the pseudo tool _Exception.
ModelResponseUnparseable(c) ==
    /\ calls[c].pc = "AwaitingModel"
    /\ ShouldContinue(calls[c].iterations)
    /\ "unparseable" \in repertoire
    /\ RecordStep(c, Step("_Exception", "Invalid or incomplete response",
                          ParseErrorObservation), 1)

\* The requested tool is registered and its arguments fit its schema.
DispatchTool(c) ==
    /\ calls[c].pc = "DispatchingTool"
    /\ calls[c].pending.tool \in ToolRegistry
    /\ calls[c].pending.valid
    /\ RecordStep(c, Step(calls[c].pending.tool, calls[c].pending.tool_input,
                          ToolObservation(calls[c].pending)), 0)

\* The requested name is not in the registry: the executor answers the model
\* with "... is not a valid tool" and records the step under the requested name.
DispatchUnknownTool(c) ==
    /\ calls[c].pc = "DispatchingTool"
    /\ calls[c].pending.tool \notin ToolRegistry
    /\ RecordStep(c, Step(calls[c].pending.tool, calls[c].pending.tool_input,
                          InvalidToolObservation(calls[c].pending)), 0)

\* The arguments lack a required field: schema validation raises, the
\* executor does not catch it, the exception reaches chat().
DispatchInvalidArguments(c) ==
    /\ calls[c].pc = "DispatchingTool"
    /\ calls[c].pending.tool \in ToolRegistry
    /\ ~calls[c].pending.valid
    /\ RaiseToChat(c, "validation error", 0)

\* max_iterations (agent.py:86) is spent: the stop message is the output.
IterationCapStop(c) ==
    /\ calls[c].pc = "AwaitingModel"
    /\ ~ShouldContinue(calls[c].iterations)
    /\ ReturnOutput(c, StoppedOutput, "BudgetExceeded", 0)

\* max_execution_time (agent.py:87) is spent: the stop message is the output.
\* The wall clock is the environment's: the 30 s may run out at any await.
TimeCapStop(c) ==
    /\ calls[c].pc \in {"AwaitingModel", "DispatchingTool"}
    /\ ShouldContinue(calls[c].iterations)
    /\ ReturnOutput(c, StoppedOutput, "BudgetExceeded", 0)

\* The endpoint sends the response; the request is over.
Deliver(c) ==
    /\ calls[c].pc = "returned"
    /\ calls' = [calls EXCEPT ![c] = IdleCall]
    /\ last_op' = Other
    /\ UNCHANGED <<chat_history, repertoire, notAgentVars>>

\* routers/ai.py:258-274 -> agent.py:183-185: whatever the conversation id,
\* the one memory of the agent is emptied.
ClearConversation(conv) ==
    /\ chat_history' = <<>>
    /\ last_op' = [op |-> "clear", conv |-> conv]
    /\ UNCHANGED <<calls, repertoire, notAgentVars>>

\* The mock models: each answers, fails, or issues its one kind of request.
Repertoires == {{k} : k \in RequestKinds \cup {"unparseable"}}

NoToolResult == [tool |-> None]

\* no request has reached the agent
AgentIdle ==
    /\ chat_history = <<>>
    /\ calls = [c \in 1..MaxInFlight |-> IdleCall]
    /\ last_op = Other

\* no tool has been invoked; the store is empty
ToolsIdle ==
    /\ store = [shipments |-> {}, warehouses |-> {}]
    /\ open_sessions = 0
    /\ tool_result = NoToolResult

\* module import: both globals are None (routers/ai.py:32, rag.py:328)
SingletonsIdle ==
    /\ _ai_agent = 0
    /\ _rag_instance = 0
    /\ threads = [t \in 1..MaxThreads |-> [pc |-> "idle", local |-> 0, result |-> 0]]
    /\ constructed = [agent |-> 0, rag |-> 0]
    /\ rag_returned = {}

\* the retrieval subsystem has not been constructed; nothing is persisted
RagIdle ==
    /\ docs_directory = "absent"
    /\ vector_store = <<>>
    /\ rag_state = "none"
    /\ rag_result = [op |-> None]

\* no document is being split
SplitterIdle == splitter = [pc |-> "idle"]

\* production configuration (config.py:17); no AI endpoint has been called
HttpIdle ==
    /\ DEBUG = FALSE
    /\ http_exchange = [endpoint |-> None]

\* an empty shipments table; no shipment endpoint has been called
ShipmentsIdle ==
    /\ db_shipments = <<>>
    /\ next_shipment_id = 1
    /\ db_writes = 0
    /\ ship_exchange = [endpoint |-> None]

Init ==
    /\ AgentIdle
    /\ repertoire \in Repertoires
    /\ ToolsIdle
    /\ SingletonsIdle
    /\ RagIdle
    /\ HttpIdle
    /\ ShipmentsIdle
    /\ SplitterIdle

Next ==
    \/ \E c \in Slots : ChatStart(c)
    \/ \E c \in Slots : ModelFinalAnswer(c)
    \/ \E c \in Slots : ModelRequestsTool(c)
    \/ \E c \in Slots : ModelCallFails(c)
    \/ \E c \in Slots : ModelResponseUnparseable(c)
    \/ \E c \in Slots : DispatchTool(c)
    \/ \E c \in Slots : DispatchUnknownTool(c)
    \/ \E c \in Slots : DispatchInvalidArguments(c)
    \/ \E c \in Slots : IterationCapStop(c)
    \/ \E c \in Slots : TimeCapStop(c)
    \/ \E c \in Slots : Deliver(c)
    \/ \E conv \in ConversationIds : ClearConversation(conv)

Spec == Init /\ [][Next]_vars

\* ------------------------------------------------------------------------
\* Part 2: the lazily created singletons
\*
\* get_ai_agent (routers/ai.py:35-40) is a plain function used as a
\* dependency of the chat, stream, query and clear endpoints; the framework
\* resolves plain-function dependencies on worker threads, so several
\* requests run it at once and a thread switch can fall between any two of
\* its statements.  get_rag_system (rag.py:335-342) is only ever called from
\* the bodies of async endpoints (routers/ai.py:145, 213), on the event
\* loop, and holds no await: it runs as one step.
\* Instances are numbered 1, 2, ... in construction order; 0 is None.
\* ------------------------------------------------------------------------
\* routers/ai.py:38  `if _ai_agent is None`
GetAgentTest(t) ==
    /\ threads[t].pc = "idle"
    /\ threads' = [threads EXCEPT ![t] =
                     [pc |-> IF _ai_agent = 0 THEN "construct" ELSE "return",
                      local |-> 0, result |-> 0]]
    /\ UNCHANGED <<_ai_agent, _rag_instance, constructed, rag_returned, notSingletonVars>>

\* routers/ai.py:39  LogisticsAIAgent() builds a new object (agent.py:38-90)
GetAgentConstruct(t) ==
    /\ threads[t].pc = "construct"
    /\ constructed' = [constructed EXCEPT !.agent = @ + 1]
    /\ threads' = [threads EXCEPT ![t] = [@ EXCEPT !.pc = "assign",
                                                   !.local = constructed.agent + 1]]
    /\ UNCHANGED <<_ai_agent, _rag_instance, rag_returned, notSingletonVars>>

\* routers/ai.py:39  the constructor raises (no API key, ...): the request fails
GetAgentConstructFails(t) ==
    /\ threads[t].pc = "construct"
    /\ threads' = [threads EXCEPT ![t] = [@ EXCEPT !.pc = "idle"]]
    /\ UNCHANGED <<_ai_agent, _rag_instance, constructed, rag_returned, notSingletonVars>>

\* routers/ai.py:39  the store to the global
GetAgentAssign(t) ==
    /\ threads[t].pc = "assign"
    /\ _ai_agent' = threads[t].local
    /\ threads' = [threads EXCEPT ![t] = [@ EXCEPT !.pc = "return"]]
    /\ UNCHANGED <<_rag_instance, constructed, rag_returned, notSingletonVars>>

\* routers/ai.py:40  `return _ai_agent`
GetAgentReturn(t) ==
    /\ threads[t].pc = "return"
    /\ threads' = [threads EXCEPT ![t] = [@ EXCEPT !.pc = "done", !.result = _ai_agent]]
    /\ UNCHANGED <<_ai_agent, _rag_instance, constructed, rag_returned, notSingletonVars>>

\* the request that used the agent is over; the thread takes the next one
RequestDone(t) ==
    /\ threads[t].pc = "done"
    /\ threads' = [threads EXCEPT ![t] = [pc |-> "idle", local |-> 0, result |-> 0]]
    /\ UNCHANGED <<_ai_agent, _rag_instance, constructed, rag_returned, notSingletonVars>>

\* rag.py:335-342  get_rag_system, one uninterrupted step on the event loop
GetRagSystem ==
    /\ IF _rag_instance = 0
       THEN /\ constructed' = [constructed EXCEPT !.rag = @ + 1]
            /\ _rag_instance' = constructed.rag + 1
            /\ rag_returned' = rag_returned \cup {constructed.rag + 1}
       ELSE /\ rag_returned' = rag_returned \cup {_rag_instance}
            /\ UNCHANGED <<_rag_instance, constructed>>
    /\ UNCHANGED <<_ai_agent, threads, notSingletonVars>>

\* rag.py:341  LogisticsRAG() raises: the global stays None
GetRagSystemFails ==
    /\ _rag_instance = 0
    /\ UNCHANGED vars

InitSingletons ==
    /\ SingletonsIdle
    /\ AgentIdle
    /\ repertoire = {}
    /\ ToolsIdle
    /\ RagIdle
    /\ HttpIdle
    /\ ShipmentsIdle
    /\ SplitterIdle

NextSingletons ==
    \/ \E t \in DOMAIN threads : GetAgentTest(t)
    \/ \E t \in DOMAIN threads : GetAgentConstruct(t)
    \/ \E t \in DOMAIN threads : GetAgentConstructFails(t)
    \/ \E t \in DOMAIN threads : GetAgentAssign(t)
    \/ \E t \in DOMAIN threads : GetAgentReturn(t)
    \/ \E t \in DOMAIN threads : RequestDone(t)
    \/ GetRagSystem
    \/ GetRagSystemFails

SpecSingletons == InitSingletons /\ [][NextSingletons]_vars

\* C10: at most one LogisticsAIAgent and at most one LogisticsRAG is ever
\* constructed, and every get_ai_agent / get_rag_system call returns that
\* one instance.
C10_OneInstancePerProcess ==
    /\ constructed.agent <= 1
    /\ constructed.rag <= 1
    /\ \A t \in DOMAIN threads : threads[t].pc = "done" => threads[t].result = 1
    /\ rag_returned \subseteq {1}

\* ------------------------------------------------------------------------
\* Part 3: the five tools (backend/app/ai/tools.py)
\*
\* Every tool body is one try block followed by `except Exception`, which
\* logs and returns a fixed fallback string.  A run of a body is described
\* by its outcome: whether it returned or raised, the string (text plus the
\* values formatted into it), and how many database sessions it opened and
\* closed.  The environment decides per invocation whether the store fails:
\* "connect" (the import or SessionLocal() raises), "query" (the query
\* raises), "format" (reading a column or formatting the answer raises).
\* ------------------------------------------------------------------------
Faults == {"none", "connect", "query", "format"}

Returned(text, args, opened, closed) ==
    [kind |-> "return", text |-> text, args |-> args, opened |-> opened, closed |-> closed]
Raised(why, opened, closed) ==
    [kind |-> "raise", text |-> why, args |-> <<>>, opened |-> opened, closed |-> closed]

\* `except Exception as e: logger.error(...); return <fallback>`
\* (tools.py:45-47, 80-82, 120-122, 163-165, 207-209)
ExceptReraises(outcome, text, args) == outcome
Except(outcome, text, args) ==
    IF outcome.kind = "raise"
    THEN Returned(text, args, outcome.opened, outcome.closed)
    ELSE outcome

\* str.upper / str.lower on the strings the model uses
Upper(str) ==
    CASE str = "trk1" -> "TRK1"
      [] str = "chi" -> "CHI"
      [] str = "chicago" -> "CHICAGO"
      [] str = "Chicago" -> "CHICAGO"
      [] str = "Denver" -> "DENVER"
      [] str = "denver" -> "DENVER"
      [] OTHER -> str
Lower(str) ==
    CASE str = "TRK1" -> "trk1"
      [] str = "CHI" -> "chi"
      [] str = "CHICAGO" -> "chicago"
      [] str = "Chicago" -> "chicago"
      [] str = "Denver" -> "denver"
      [] str = "DENVER" -> "denver"
      [] OTHER -> str

\* SQL ILIKE '%pattern%': case-insensitive substring
ILikeContains(column, pattern) ==
    LET c == Lower(column)
        q == Lower(pattern)
    IN \/ c = q
       \/ c = "chicago" /\ q = "chi"

\* rows of the two tables, in the store's natural order
ShipA ==
    [tracking_number |-> "TRK1", status |-> "in_transit", current_location |-> None,
     origin |-> "Chicago", destination |-> "Denver",
     estimated_delivery |-> None, actual_delivery |-> None]
ShipB ==
    [tracking_number |-> "TRK2", status |-> "delivered", current_location |-> "Denver",
     origin |-> "Denver", destination |-> "Chicago",
     estimated_delivery |-> "2026-01-05", actual_delivery |-> "2026-01-04"]
ShipC ==
    [tracking_number |-> "TRK3", status |-> "pending", current_location |-> None,
     origin |-> "Chicago", destination |-> "Chicago",
     estimated_delivery |-> "2026-01-09", actual_delivery |-> None]
WhA == [name |-> "Central", city |-> "Chicago", state |-> "IL",
        capacity_sqm |-> 0, current_utilization |-> 0, phone |-> None]
WhB == [name |-> "West", city |-> "Denver", state |-> "CO",
        capacity_sqm |-> 200, current_utilization |-> 50, phone |-> "555"]

Stores ==
    [shipments : {<<>>, <<ShipA>>, <<ShipA, ShipB, ShipC>>},
     warehouses : {<<>>, <<WhA, WhB>>}]

TrackingNumbers == {"trk1", "TRK2", "TRK9"}
Locations == {"chi", "Denver", "Paris"}
Weights == {0, 4}

Take(seq, n) == SubSeq(seq, 1, Min(n, Len(seq)))
Column(rows, field) == [i \in 1..Len(rows) |-> rows[i][field]]

\* the query `filter(tracking_number == X).first()`: <<>> stands for the
\* None that first() gives when no row matches, <<row>> for the row
FirstByTracking(rows, tn) ==
    Take(SelectSeq(rows, LAMBDA r : r.tracking_number = tn), 1)

\* tools.py:14-47
get_shipment_status(tracking_number, fault) ==
    LET body ==
          IF fault = "connect" THEN Raised("connect", 0, 0)
          ELSE IF fault = "query" THEN Raised("query", 1, 0)
          ELSE LET first == FirstByTracking(store.shipments, Upper(tracking_number))
                   shipment == first[1]
               IN IF first = <<>>
                  THEN Returned("Shipment with tracking number not found",
                                <<tracking_number>>, 1, 1)
                  ELSE IF fault = "format" THEN Raised("format", 1, 1)
                  ELSE Returned("Shipment status",
                                <<tracking_number, shipment.status,
                                  IF shipment.current_location = None
                                  THEN "Processing at origin"
                                  ELSE shipment.current_location,
                                  shipment.origin, shipment.destination>>, 1, 1)
    IN Except(body, "Unable to retrieve status", <<tracking_number>>)

\* tools.py:50-82; amounts in cents: base 10.00, 2.50 per kg, factor 1.5
ShippingCostCents(origin, destination, weight_kg) ==
    LET base == 1000 + weight_kg * 250
    IN IF Lower(origin) # Lower(destination) THEN (base * 3) \div 2 ELSE base
calculate_shipping_cost(origin, destination, weight_kg) ==
    LET body ==
          Returned("Estimated shipping cost",
                   <<origin, destination,
                     [kg |-> weight_kg,
                      cents |-> ShippingCostCents(origin, destination, weight_kg)]>>, 0, 0)
    IN Except(body, "Unable to calculate shipping cost", <<>>)

\* tools.py:85-122
find_nearest_warehouse(location, fault) ==
    LET body ==
          IF fault = "connect" THEN Raised("connect", 0, 0)
          ELSE IF fault = "query" THEN Raised("query", 1, 0)
          ELSE LET warehouses ==
                     Take(SelectSeq(store.warehouses,
                                    LAMBDA w : ILikeContains(w.city, location)), 3)
               IN IF warehouses = <<>>
                  THEN Returned("No warehouses found near", <<location>>, 1, 1)
                  ELSE IF fault = "format" THEN Raised("format", 1, 1)
                  ELSE Returned("Warehouses near",
                                <<location>> \o Column(warehouses, "name"), 1, 1)
    IN Except(body, "Unable to find nearby warehouses", <<>>)

\* tools.py:125-165
estimate_delivery_time(tracking_number, fault) ==
    LET body ==
          IF fault = "connect" THEN Raised("connect", 0, 0)
          ELSE IF fault = "query" THEN Raised("query", 1, 0)
          ELSE LET first == FirstByTracking(store.shipments, Upper(tracking_number))
                   shipment == first[1]
               IN IF first = <<>>
                  THEN Returned("Shipment not found", <<tracking_number>>, 1, 1)
                  ELSE IF fault = "format" THEN Raised("format", 1, 1)
                  ELSE IF shipment.actual_delivery # None
                  THEN Returned("was already delivered on",
                                <<tracking_number, shipment.actual_delivery>>, 1, 1)
                  ELSE IF shipment.estimated_delivery # None
                  THEN Returned("is estimated to be delivered on",
                                <<tracking_number, shipment.estimated_delivery>>, 1, 1)
                  ELSE Returned("is estimated to be delivered by",
                                <<tracking_number, "3 business days">>, 1, 1)
    IN Except(body, "Unable to estimate delivery time", <<>>)

\* tools.py:168-209; an absent (None) or empty criterion is not applied
search_shipments(status, origin, destination, fault) ==
    LET body ==
          IF fault = "connect" THEN Raised("connect", 0, 0)
          ELSE IF fault = "query" THEN Raised("query", 1, 0)
          ELSE LET shipments ==
                     Take(SelectSeq(store.shipments,
                            LAMBDA r :
                               /\ status # None => r.status = status
                               /\ origin # None => ILikeContains(r.origin, origin)
                               /\ destination # None =>
                                     ILikeContains(r.destination, destination)), 10)
               IN IF shipments = <<>>
                  THEN Returned("No shipments found matching the criteria", <<>>, 1, 1)
                  ELSE IF fault = "format" THEN Raised("format", 1, 1)
                  ELSE Returned("Found shipment(s)",
                                Column(shipments, "tracking_number"), 1, 1)
    IN Except(body, "Unable to search shipments", <<>>)

\* the executor invokes a registered tool with well-formed arguments
Invoke(tool, fault, outcome) ==
    /\ open_sessions + outcome.opened - outcome.closed <= MaxOpenSessions
    /\ tool_result' = [tool |-> tool, fault |-> fault, outcome |-> outcome]
    /\ open_sessions' = open_sessions + outcome.opened - outcome.closed
    /\ UNCHANGED <<store, notToolVars>>

InvokeGetShipmentStatus ==
    \E tn \in TrackingNumbers, fault \in Faults :
        Invoke("get_shipment_status", fault, get_shipment_status(tn, fault))

InvokeCalculateShippingCost ==
    \E o \in Locations, d \in Locations, w \in Weights :
        Invoke("calculate_shipping_cost", "none", calculate_shipping_cost(o, d, w))

InvokeFindNearestWarehouse ==
    \E loc \in Locations, fault \in Faults :
        Invoke("find_nearest_warehouse", fault, find_nearest_warehouse(loc, fault))

InvokeEstimateDeliveryTime ==
    \E tn \in TrackingNumbers, fault \in Faults :
        Invoke("estimate_delivery_time", fault, estimate_delivery_time(tn, fault))

InvokeSearchShipments ==
    \E st \in {None, "pending", "in_transit"}, o \in {None, "chi"}, d \in {None, "denver"},
       fault \in Faults :
        Invoke("search_shipments", fault, search_shipments(st, o, d, fault))

InitTools ==
    /\ store \in Stores
    /\ open_sessions = 0
    /\ tool_result = NoToolResult
    /\ AgentIdle
    /\ repertoire = {}
    /\ SingletonsIdle
    /\ RagIdle
    /\ HttpIdle
    /\ ShipmentsIdle
    /\ SplitterIdle

NextTools ==
    \/ InvokeGetShipmentStatus
    \/ InvokeCalculateShippingCost
    \/ InvokeFindNearestWarehouse
    \/ InvokeEstimateDeliveryTime
    \/ InvokeSearchShipments

SpecTools == InitTools /\ [][NextTools]_vars

\* C6: each of the five tools, invoked with well-formed arguments, hands a
\* string back to its caller - also when nothing matches and when the data
\* store raises; no exception leaves a tool.
C6_ToolsReturnStrings ==
    tool_result.tool # None =>
        /\ tool_result.tool \in ToolRegistry
        /\ tool_result.outcome.kind = "return"
        /\ tool_result.fault # "none" =>
              tool_result.outcome.text \in
                 {"Unable to retrieve status", "Unable to find nearby warehouses",
                  "Unable to estimate delivery time", "Unable to search shipments",
                  "Shipment with tracking number not found", "Shipment not found",
                  "No warehouses found near", "No shipments found matching the criteria"}

C6_Witness ==
    /\ tool_result.tool = "estimate_delivery_time"
    /\ tool_result.fault = "query"
    /\ tool_result.outcome.kind = "return"
    /\ tool_result.outcome.text = "Unable to estimate delivery time"

\* ------------------------------------------------------------------------
\* Properties of the conversational agent
\* ------------------------------------------------------------------------
IsPrefix(a, b) == Len(a) <= Len(b) /\ SubSeq(b, 1, Len(a)) = a

\* the step in which chat() call c enters the executor: chat_history, as it
\* is in the state before the step, is the history the prompt is built from
Starts(c) == calls[c].pc = "idle" /\ calls'[c].pc = "AwaitingModel"
\* the step in which chat() call c returns to its caller
Returns(c) == calls[c].pc # "returned" /\ calls'[c].pc = "returned"

OwnExchange(call) ==
    <<Turn("human", call.message, call.conversation_id),
      Turn("ai", call.response.message, call.conversation_id)>>

\* C1: session isolation - the history a chat call under conversation id B
\* is prompted with holds only turns saved by chat calls made under B.
C1_SessionIsolation ==
    [][\A c \in Slots :
          Starts(c) =>
            \A i \in 1..Len(chat_history) :
                chat_history[i].conv = calls'[c].conversation_id]_vars

C3_RoundTripCap ==
    \A c \in Slots :
        /\ calls[c].iterations <= max_iterations
        /\ calls[c].model_calls <= max_iterations
        /\ Len(calls[c].intermediate_steps) <= max_iterations
        /\ calls[c].pc = "DispatchingTool" => calls[c].iterations < max_iterations
        /\ (calls[c].pc = "AwaitingModel" /\ calls[c].iterations = max_iterations) =>
              /\ ~ENABLED ModelRequestsTool(c)
              /\ ~ENABLED ModelFinalAnswer(c)
              /\ ENABLED IterationCapStop(c)
        /\ (calls[c].pc = "returned" /\ calls[c].iterations = max_iterations) =>
              calls[c].state = "BudgetExceeded"

C3_Witness ==
    \E c \in Slots :
        /\ calls[c].pc = "returned"
        /\ calls[c].state = "BudgetExceeded"
        /\ calls[c].iterations = max_iterations
        /\ \A i \in 1..max_iterations :
              calls[c].intermediate_steps[i].action.tool \in ToolRegistry

\* C4: a chat call that ends on a spent iteration or time budget returns
\* the fixed apology with an error description, not an ordinary response.
C4_BudgetStopReturnsApology ==
    \A c \in Slots :
        calls[c].state = "BudgetExceeded" =>
            /\ calls[c].response.message = Apology
            /\ "error" \in DOMAIN calls[c].response

\* C5: a fault of the model call or of the executor ends the call at once:
\* chat() returns the apology, the conversation id and an error
\* description, and no model call was repeated (one model call per round
\* trip plus the one in progress).
C5_FaultReturnsApology ==
    \A c \in Slots :
        /\ calls[c].model_calls \in {calls[c].iterations, calls[c].iterations + 1}
        /\ calls[c].state = "Aborted" =>
              /\ calls[c].pc = "returned"
              /\ calls[c].response =
                    [message |-> Apology,
                     conversation_id |-> calls[c].conversation_id,
                     error |-> calls[c].response.error]
              /\ calls[c].response.error \in {"model unavailable", "validation error"}
              /\ calls[c].model_calls = calls[c].iterations + 1
              /\ calls[c].appended = <<>>

C5_Witness ==
    \E c \in Slots :
        /\ calls[c].state = "Aborted"
        /\ calls[c].response.error = "model unavailable"
        /\ calls[c].iterations >= 1

\* C7: every tool named in a response's sources is one of the five
\* registered tools (a request for an unknown tool aborts the call and is
\* never recorded).  The step the executor records for an unparseable model
\* response, under the name _Exception, is not counted as a tool here.
C7_SourcesNameRegisteredTools ==
    \A c \in Slots :
        (calls[c].pc = "returned" /\ calls[c].state # "Aborted") =>
            \A i \in 1..Len(calls[c].response.sources) :
                calls[c].response.sources[i].tool \in ToolRegistry \cup {"_Exception"}

\* C8: a tool call whose arguments lack a required field is answered to the
\* model as a tool result and the call goes on to a further model call; it
\* does not abort the chat call.
C8_InvalidArgumentsContinue ==
    [][\A c \in Slots :
          (calls[c].pc = "DispatchingTool" /\ ~calls[c].pending.valid
             /\ calls'[c] # calls[c]) =>
                (calls'[c].pc = "AwaitingModel" \/ calls'[c].state = "BudgetExceeded")]_vars

MaxChunks == 4   \* chunks the collection may hold before ingestion stops

chunk_size == 1000     \* rag.py:123
chunk_overlap == 200   \* rag.py:124
retriever_k == 4       \* rag.py:57  search_kwargs={"k": 4}

SearchApology == "I apologize, but I encountered an error searching the documentation."

\* A loaded document: page_content names the text, length is len(page_content),
\* about lists what each successive window of the text is about (which fixes
\* the windows' embeddings).
\* rag.py:149-216  the file _create_sample_documents writes into ./docs
OperationsManual ==
    [page_content |-> "Logistics Operations Manual", length |-> 1633,
     source |-> "docs/operations_manual.txt", about |-> <<"shipping", "safety">>]
\* a file an operator has put into ./docs, and an empty file
ReturnsPolicy ==
    [page_content |-> "Returns Policy", length |-> 2400,
     source |-> "docs/returns.txt", about |-> <<"returns", "returns", "shipping">>]
EmptyFile ==
    [page_content |-> "", length |-> 0, source |-> "docs/empty.txt", about |-> <<>>]

\* rag.py:220-236
_get_sample_documents ==
    <<[page_content |-> "Shipping Policy", length |-> 220,
       source |-> "shipping_policy", about |-> <<"shipping">>],
      [page_content |-> "Warehouse Safety", length |-> 152,
       source |-> "safety_manual", about |-> <<"safety">>]>>

DirectoryStates == {"absent", "empty", "unreadable", "blank", "files", "sample"}

\* rag.py:100-113  what the two DirectoryLoaders return for a directory
\* that can be listed ("blank" holds one empty text file)
DirectoryContents(dir) ==
    CASE dir = "files" -> <<ReturnsPolicy>>
      [] dir = "sample" -> <<OperationsManual>>
      [] dir = "blank" -> <<EmptyFile>>
      [] OTHER -> <<>>

\* rag.py:122-129  RecursiveCharacterTextSplitter(chunk_size, chunk_overlap):
\* the number of windows of a text of the given length when windows of
\* chunk_size start every chunk_size - chunk_overlap characters; an empty
\* text gives no window
WindowCount(length) ==
    IF length = 0 THEN 0
    ELSE IF length <= chunk_size THEN 1
    ELSE 1 + ((length - chunk_size) + (chunk_size - chunk_overlap) - 1)
                 \div (chunk_size - chunk_overlap)

Chunk(page_content, window, source, embedding) ==
    [page_content |-> <<page_content, window>>, source |-> source,
     embedding |-> embedding]

SplitDocument(doc) ==
    [i \in 1..WindowCount(doc.length) |->
        Chunk(doc.page_content, i, doc.source,
              IF i <= Len(doc.about) THEN doc.about[i] ELSE "other")]

RECURSIVE split_documents(_)
split_documents(documents) ==
    IF documents = <<>> THEN <<>>
    ELSE SplitDocument(Head(documents)) \o split_documents(Tail(documents))

\* what one run of the loading code meets: fs (creating ./docs and writing
\* the manual), loader (reading the files), chroma (embedding and storing),
\* empty_add (what the collection does when asked to store no chunk at all)
LoadEnvs ==
    [fs : {"ok", "raise"}, loader : {"ok", "raise"},
     chroma : {"ok", "unavailable"}, empty_add : {"noop", "raise"}]

LoadOutcome(kind, dir, collection) ==
    [kind |-> kind, docs_directory |-> dir, vector_store |-> collection]

\* rag.py:98-119  the loaders raise only on something they cannot read
LoaderRaises(dir, env) ==
    env.loader = "raise" /\ dir \in {"unreadable", "files", "sample", "blank"}

\* rag.py:86-142
_load_documents_to_vector_store(dir, collection, env) ==
    LET dir1 == IF dir = "absent" THEN "sample" ELSE dir
        documents == IF LoaderRaises(dir1, env)
                     THEN _get_sample_documents
                     ELSE DirectoryContents(dir1)
        splits == split_documents(documents)
    IN IF dir = "absent" /\ env.fs = "raise"
       THEN LoadOutcome("raise", dir, collection)          \* _create_sample_documents raises
       ELSE IF env.chroma = "unavailable"
       THEN LoadOutcome("raise", dir1, collection)         \* Chroma.from_documents raises
       ELSE IF splits = <<>> /\ env.empty_add = "raise"
       THEN LoadOutcome("raise", dir1, collection)
       ELSE LoadOutcome("return", dir1, collection \o splits)

\* rag.py:62-84: the except branch runs the loading code a second time
_initialize_vector_store(dir, collection, open_fault, env1, env2) ==
    LET first ==
          IF open_fault THEN LoadOutcome("raise", dir, collection)
          ELSE IF Len(collection) > 0 THEN LoadOutcome("return", dir, collection)
          ELSE _load_documents_to_vector_store(dir, collection, env1)
    IN IF first.kind = "raise"
       THEN _load_documents_to_vector_store(first.docs_directory, first.vector_store, env2)
       ELSE first

\* the collection's similarity search: nearest first, ties in insertion order
Distance(query, chunk) == IF chunk.embedding = query THEN 0 ELSE 1
Nearest(collection, query) ==
    SelectSeq(collection, LAMBDA c : Distance(query, c) = 0)
        \o SelectSeq(collection, LAMBDA c : Distance(query, c) = 1)
similarity_search(collection, query, k) == Take(Nearest(collection, query), k)

SearchFaults == {"none", "index", "llm"}

\* rag.py:238-277; value is the dictionary returned, llm_invoked whether the
\* chain reached the language model
search(collection, query, top_k, fault) ==
    LET docs == similarity_search(collection, query, top_k)   \* rag.py:251, not used again
        source_documents == similarity_search(collection, query, retriever_k)
        failed(e) == [query |-> query, answer |-> SearchApology,
                      results |-> <<>>, error |-> e]
    IN IF fault = "index" THEN [value |-> failed("index unavailable"), llm_invoked |-> FALSE]
       ELSE IF fault = "llm" THEN [value |-> failed("model unavailable"), llm_invoked |-> TRUE]
       ELSE [value |-> [query |-> query, answer |-> "grounded answer",
                        results |-> [i \in 1..Len(source_documents) |->
                            [content |-> source_documents[i].page_content,
                             source |-> source_documents[i].source,
                             page |-> None]]],
             llm_invoked |-> TRUE]

\* rag.py:279-304
simple_searchOneTooMany(collection, query, top_k, fault) ==
    [value |-> [i \in 1..Len(similarity_search(collection, query, top_k + 1)) |->
                  [content |-> similarity_search(collection, query, top_k + 1)[i].page_content,
                   source |-> similarity_search(collection, query, top_k + 1)[i].source,
                   relevance_score |-> None]],
     llm_invoked |-> FALSE]
simple_search(collection, query, top_k, fault) ==
    LET docs == similarity_search(collection, query, top_k)
    IN IF fault = "index" THEN [value |-> <<>>, llm_invoked |-> FALSE]
       ELSE [value |-> [i \in 1..Len(docs) |->
                          [content |-> docs[i].page_content,
                           source |-> docs[i].source,
                           relevance_score |-> None]],
             llm_invoked |-> FALSE]

\* the embedding of a text handed to add_documents
Embedding(text) ==
    CASE text = "Hazmat note" -> "safety"
      [] text = "Rates 2026" -> "shipping"
      [] OTHER -> "other"

\* rag.py:317-320  zip(texts, metadatas or [{}] * len(texts)); a metadata is
\* the source it names, "" for the empty dictionary; None for no metadatas
ZipDocuments(texts, metadatas) ==
    LET n == IF metadatas = <<None>> THEN Len(texts)
             ELSE Min(Len(texts), Len(metadatas))
    IN [i \in 1..n |->
          Chunk(texts[i], 0,
                IF metadatas = <<None>> \/ metadatas[i] = "" THEN "unknown"
                ELSE metadatas[i],
                Embedding(texts[i]))]

\* rag.py:306-328: the new collection; a fault is logged and changes nothing
add_documentsSkipsKnown(collection, texts, metadatas, fault) ==
    IF fault # "none" THEN collection
    ELSE collection \o SelectSeq(ZipDocuments(texts, metadatas),
                            LAMBDA d : \A i \in 1..Len(collection) : collection[i] # d)
add_documents(collection, texts, metadatas, fault) ==
    IF fault # "none" THEN collection
    ELSE collection \o ZipDocuments(texts, metadatas)

Queries == {"safety", "shipping"}
TopKs == {1, 2, 4, 5, 20}          \* schemas/ai.py:34 admits 1..20
TextLists == {<<>>, <<"Hazmat note">>, <<"Hazmat note", "Rates 2026">>}
MetadataLists == {<<None>>, <<"">>, <<"ops wiki">>}

\* get_rag_system (rag.py:335-342) finds no instance and runs LogisticsRAG()
\* (rag.py:33-60); when the constructor raises the global stays None and the
\* next call constructs again.
RagConstruct ==
    /\ rag_state = "none"
    /\ \E open_fault \in BOOLEAN, env1 \in LoadEnvs, env2 \in LoadEnvs :
         LET out == _initialize_vector_store(docs_directory, vector_store,
                                             open_fault, env1, env2)
         IN /\ Len(out.vector_store) <= MaxChunks
            /\ docs_directory' = out.docs_directory
            /\ vector_store' = out.vector_store
            /\ rag_state' = IF out.kind = "return" THEN "ready" ELSE "none"
            /\ rag_result' =
                 [op |-> "init", ok |-> (out.kind = "return"),
                  docs_directory |-> docs_directory, count |-> Len(vector_store),
                  unrelated_fault |->
                      \/ open_fault
                      \/ env1.fs = "raise" \/ env1.chroma = "unavailable"
                      \/ env2.fs = "raise" \/ env2.chroma = "unavailable"]
    /\ UNCHANGED notRagVars

\* the process is restarted: the instance is gone, the disk is as it was
ProcessRestart ==
    /\ rag_state = "ready"
    /\ rag_state' = "none"
    /\ rag_result' = [op |-> "restart"]
    /\ UNCHANGED <<docs_directory, vector_store, notRagVars>>

\* routers/ai.py:145-146 -> rag.py:238-277
RagSearch ==
    /\ rag_state = "ready"
    /\ \E query \in Queries, top_k \in TopKs, fault \in SearchFaults :
         rag_result' = [op |-> "search", query |-> query, top_k |-> top_k,
                        fault |-> fault,
                        out |-> search(vector_store, query, top_k, fault)]
    /\ UNCHANGED <<docs_directory, vector_store, rag_state, notRagVars>>

\* rag.py:279-304
RagSimpleSearch ==
    /\ rag_state = "ready"
    /\ \E query \in Queries, top_k \in TopKs, fault \in {"none", "index"} :
         rag_result' = [op |-> "simple_search", query |-> query, top_k |-> top_k,
                        fault |-> fault,
                        out |-> simple_search(vector_store, query, top_k, fault)]
    /\ UNCHANGED <<docs_directory, vector_store, rag_state, notRagVars>>

\* rag.py:306-328
RagAddDocuments ==
    /\ rag_state = "ready"
    /\ \E texts \in TextLists, metadatas \in MetadataLists,
          fault \in {"none", "chroma"} :
         /\ Len(add_documents(vector_store, texts, metadatas, fault)) <= MaxChunks
         /\ vector_store' = add_documents(vector_store, texts, metadatas, fault)
         /\ rag_result' = [op |-> "add_documents", texts |-> texts,
                           metadatas |-> metadatas, fault |-> fault]
    /\ UNCHANGED <<docs_directory, rag_state, notRagVars>>

\* the disk as the process finds it: any state of ./docs, and a collection
\* that is empty or was filled by an earlier run
InitRag ==
    /\ docs_directory \in DirectoryStates
    /\ vector_store \in {<<>>, split_documents(_get_sample_documents)}
    /\ rag_state = "none"
    /\ rag_result = [op |-> None]
    /\ AgentIdle
    /\ repertoire = {}
    /\ ToolsIdle
    /\ SingletonsIdle
    /\ HttpIdle
    /\ ShipmentsIdle
    /\ SplitterIdle

NextRag ==
    \/ RagConstruct
    \/ ProcessRestart
    \/ RagSearch
    \/ RagSimpleSearch
    \/ RagAddDocuments

SpecRag == InitRag /\ [][NextRag]_vars

\* C11: when ./docs is absent, empty or unreadable and the persisted
\* collection is empty, and nothing else fails, LogisticsRAG() succeeds and
\* the collection it leaves holds at least one chunk.
C11_FallbackCorpusOnEmptyDirectory ==
    (/\ rag_result.op = "init"
     /\ rag_result.docs_directory \in {"absent", "empty", "unreadable"}
     /\ rag_result.count = 0
     /\ ~rag_result.unrelated_fault) =>
        /\ rag_result.ok
        /\ Len(vector_store) >= 1

\* C12: search(query, k) returns at most k chunks in its results, each with
\* non-empty content and a source.
C12_SearchReturnsAtMostK ==
    rag_result.op = "search" =>
        LET results == rag_result.out.value.results
        IN /\ Len(results) <= rag_result.top_k
           /\ \A i \in 1..Len(results) :
                 /\ results[i].content[1] # ""
                 /\ results[i].source # ""

\* the chunks of the collection that carry a given text
Carrying(content) ==
    {i \in 1..Len(vector_store) : vector_store[i].page_content = content}

\* C13: simple_search(query, k) never reaches the language model; it returns
\* at most k raw chunks of the collection (content, source and an unset
\* score: no answer), nearest first, and the empty list when the index
\* lookup fails.
C13_SimpleSearchRawChunks ==
    rag_result.op = "simple_search" =>
        LET value == rag_result.out.value
        IN /\ ~rag_result.out.llm_invoked
           /\ Len(value) <= rag_result.top_k
           /\ rag_result.fault = "index" => value = <<>>
           /\ rag_result.fault = "none" =>
                 Len(value) = Min(rag_result.top_k, Len(vector_store))
           /\ \A i \in 1..Len(value) :
                 /\ DOMAIN value[i] = {"content", "source", "relevance_score"}
                 /\ \E n \in Carrying(value[i].content) :
                       vector_store[n].source = value[i].source
           /\ \A i \in 1..Len(value), j \in 1..Len(value) :
                 i < j =>
                    \A n \in Carrying(value[i].content), m \in Carrying(value[j].content) :
                        Distance(rag_result.query, vector_store[n])
                            <= Distance(rag_result.query, vector_store[m])

C13_Witness ==
    /\ rag_result.op = "simple_search"
    /\ rag_result.fault = "none"
    /\ rag_result.top_k = 2
    /\ Len(vector_store) >= 3
    /\ Len(rag_result.out.value) = 2
    /\ Distance(rag_result.query, vector_store[1]) = 1

\* how often a chunk occurs in a sequence of chunks
RECURSIVE Copies(_, _)
Copies(chunks, chunk) ==
    IF chunks = <<>> THEN 0
    ELSE (IF Head(chunks) = chunk THEN 1 ELSE 0) + Copies(Tail(chunks), chunk)

\* C14: ingestion only appends: no step removes or reorders chunks of the
\* collection, and add_documents, when it does not fail, appends one chunk
\* per (text, metadata) pair in order, whether or not the collection holds
\* the same chunk already - so adding a set twice leaves two copies.
C14_IngestionAppendOnly ==
    [][/\ IsPrefix(vector_store, vector_store')
       /\ (rag_result'.op = "add_documents" /\ rag_result'.fault = "none") =>
             LET texts == rag_result'.texts
                 n == IF rag_result'.metadatas = <<None>> THEN Len(texts)
                      ELSE Min(Len(texts), Len(rag_result'.metadatas))
             IN /\ Len(vector_store') = Len(vector_store) + n
                /\ \A i \in 1..n :
                      vector_store'[Len(vector_store) + i].page_content = <<texts[i], 0>>]_vars

C14_Witness ==
    /\ rag_result.op = "add_documents"
    /\ rag_result.fault = "none"
    /\ rag_result.texts = <<"Hazmat note">>
    /\ Copies(vector_store, Chunk("Hazmat note", 0, "unknown", "safety")) = 2

\* ------------------------------------------------------------------------
\* Part 5: the AI endpoints (backend/app/routers/ai.py) and the
\* application's exception handlers (backend/app/main.py)
\*
\* A response is its status code, its text fields (each the sequence of the
\* pieces its string is put together from) and its structured data.  An
\* HTTPException is answered by the framework with {"detail": detail}; any
\* other exception that leaves an endpoint or one of its dependencies is
\* answered by general_exception_handler.  The agent is taken by what
\* chat() hands back (Part 1): an answer, the executor's stop message, or
\* the dictionary of the except branch.
\* ------------------------------------------------------------------------
MaxSaved == 1   \* exchanges the memory may hold when an AI endpoint is called

stream_chunk_size == 20   \* routers/ai.py:104

\* texts an underlying exception may carry
FaultMessages ==
    {"Connection refused: 10.0.0.5:8000", "Incorrect API key provided: sk-live-1"}

Ok == [kind |-> "ok", e |-> None]
Fails(e) == [kind |-> "raise", e |-> e]

JSONResponse(status_code, text, data) ==
    [status_code |-> status_code, text |-> text, data |-> data]

\* main.py:92-104
general_exception_handler(exc) ==
    JSONResponse(500,
                 [message |-> <<"Internal server error">>,
                  detail |-> <<IF DEBUG THEN exc ELSE "An error occurred">>],
                 <<>>)

\* raise HTTPException(status_code=..., detail=...)
HTTPException(status_code, detail) ==
    JSONResponse(status_code, [detail |-> detail], <<>>)

\* agent.py:130-166  chat(): what it returns for a run of the executor
chat(conversation_id, run) ==
    IF run.kind = "raise"
    THEN ErrorResponse(conversation_id, run.e)
    ELSE SuccessResponse(run.output, conversation_id, <<>>)

\* schemas/ai.py:23-28  ChatResponse(**response): the declared fields only;
\* an undeclared key such as "error" is dropped (an absent sources is <<>>)
ChatResponse(response) ==
    [message |-> response.message,
     conversation_id |-> response.conversation_id,
     tokens_used |-> None,
     sources |-> IF "sources" \in DOMAIN response THEN response.sources ELSE <<>>]

\* schemas/ai.py:37-41  DocumentSearchResponse(**result)
DocumentSearchResponse(result) ==
    [query |-> result.query, results |-> result.results, answer |-> result.answer]

\* len(message) of the messages chat() returns
MessageLength(message) ==
    CASE message = Apology -> 108
      [] message = StoppedOutput -> 36
      [] OTHER -> 45

\* routers/ai.py:103-111: message[i:i + 20] for i = 0, 20, ..., then done;
\* a chunk is the message with the bounds of its slice
generate_stream(response) ==
    LET n == MessageLength(response.message)
        count == (n + stream_chunk_size - 1) \div stream_chunk_size
    IN [i \in 1..count |->
          [event |-> "chunk",
           chunk |-> <<response.message, (i - 1) * stream_chunk_size,
                       Min(i * stream_chunk_size, n)>>]]
       \o <<[event |-> "done", chunk |-> <<"", 0, 0>>]>>

\* routers/ai.py:43-78; agent_dep is how Depends(get_ai_agent) ended
chat_with_ai(request, agent_dep, run) ==
    IF agent_dep.kind = "raise" THEN general_exception_handler(agent_dep.e)
    ELSE LET model == ChatResponse(chat(request.conversation_id, run))
         IN JSONResponse(200,
                         [message |-> <<model.message>>,
                          conversation_id |-> <<model.conversation_id>>],
                         model.sources)

\* routers/ai.py:81-124
chat_with_ai_stream(request, agent_dep, run) ==
    IF agent_dep.kind = "raise" THEN general_exception_handler(agent_dep.e)
    ELSE LET response == chat(request.conversation_id, run)
         IN JSONResponse(200, [chunk |-> <<response.message>>],
                         generate_stream(response))

\* routers/ai.py:127-155; get_rag_system() is called inside the try
search_documentation(request, rag_dep, result) ==
    IF rag_dep.kind = "raise"
    THEN HTTPException(500, <<"Error searching documentation: ", rag_dep.e>>)
    ELSE LET model == DocumentSearchResponse(result)
         IN JSONResponse(200,
                         [query |-> <<model.query>>, answer |-> <<model.answer>>],
                         model.results)

\* routers/ai.py:158-198; chat() is called without a conversation id
natural_language_shipment_query(request, agent_dep, run) ==
    IF agent_dep.kind = "raise" THEN general_exception_handler(agent_dep.e)
    ELSE LET response == chat(None, run)
         IN JSONResponse(200,
                         [query |-> <<request.query>>,
                          answer |-> <<response.message>>,
                          action_taken |-> <<"Searched shipments database">>],
                         <<>>)

\* where a request meets an exception: nowhere, in the dependency that
\* builds the agent or the retrieval system, or in the run itself (model or
\* index); "stop" is a run the executor stops on its budget
Sites == {"none", "stop", "dependency", "run"}
FaultSites == {"dependency", "run"}

\* the response of an endpoint to a request that meets exception e at site
Respond(endpoint, request, site, e) ==
    LET dep == IF site = "dependency" THEN Fails(e) ELSE Ok
        run == IF site = "run" THEN [kind |-> "raise", e |-> e]
               ELSE IF site = "stop" THEN [kind |-> "return", output |-> StoppedOutput]
               ELSE [kind |-> "return", output |-> "answer"]
        found == search(vector_store, request.query, request.top_k,
                        IF site = "run" THEN "llm" ELSE "none").value
        result == IF site = "run" THEN [found EXCEPT !.error = e] ELSE found
    IN CASE endpoint = "chat" -> chat_with_ai(request, dep, run)
         [] endpoint = "chat/stream" -> chat_with_ai_stream(request, dep, run)
         [] endpoint = "search" -> search_documentation(request, dep, result)
         [] endpoint = "query/shipment" ->
                natural_language_shipment_query(request, dep, run)

ChatRequests == [message : Messages, conversation_id : {None} \cup ConversationIds]
DocumentSearchRequests == [query : Queries, top_k : {1, 5}]
ShipmentQueryRequests == [query : {"Which shipments are delayed?"}]

\* the credentials a request may carry in its Authorization header
Tokens == {"absent", "invalid", "valid"}

\* Depends(get_current_active_user) (routers/ai.py:46, 84, 130, 162): the
\* caller of a valid bearer token, otherwise 401; it is resolved before
\* Depends(get_ai_agent) and before the endpoint's body
get_current_active_userAcceptsAny(token) ==
    IF token # "absent" THEN Ok
    ELSE Fails(HTTPException(401, <<"Not authenticated">>))
get_current_active_user(token) ==
    IF token = "valid" THEN Ok
    ELSE Fails(HTTPException(401, <<IF token = "absent" THEN "Not authenticated"
                                    ELSE "Could not validate credentials">>))

\* the endpoints that call agent.chat, what they pass to it, and what a run
\* that returns saves to the agent's memory (agent.py:74-78, 145-147)
AgentEndpoints == {"chat", "chat/stream", "query/shipment"}
ChatInput(endpoint, request) ==
    IF endpoint # "query/shipment" THEN request.message
    ELSE IF request.query = "Which shipments are delayed?"
    THEN "Search and analyze shipments based on this query: Which shipments are delayed?"
    ELSE "Search and analyze shipments based on this query: ..."
ChatConversation(endpoint, request) ==
    IF endpoint = "query/shipment" THEN None ELSE request.conversation_id

Serve(endpoint, request) ==
    \E token \in Tokens :
       LET auth == get_current_active_user(token)
       IN IF auth.kind = "raise"
          THEN /\ http_exchange' = [endpoint |-> endpoint, request |-> request,
                                    token |-> token, site |-> "none", e |-> None,
                                    agent_invoked |-> FALSE, response |-> auth.e]
               /\ UNCHANGED <<DEBUG, notHttpVars>>
          ELSE \E site \in Sites :
                 \E e \in IF site \in FaultSites THEN FaultMessages ELSE {None} :
                    LET invoked == endpoint \in AgentEndpoints /\ site # "dependency"
                        saves == invoked /\ site # "run"
                    IN /\ saves => Len(chat_history) \div 2 < MaxSaved
                       /\ http_exchange' =
                             [endpoint |-> endpoint, request |-> request,
                              token |-> token, site |-> site, e |-> e,
                              agent_invoked |-> invoked,
                              response |-> Respond(endpoint, request, site, e)]
                       /\ chat_history' =
                             IF saves
                             THEN SaveContext(chat_history, ChatInput(endpoint, request),
                                              IF site = "stop" THEN StoppedOutput
                                              ELSE "answer",
                                              ChatConversation(endpoint, request))
                             ELSE chat_history
                       /\ UNCHANGED <<DEBUG, calls, last_op, repertoire, toolVars,
                                      singletonVars, ragVars, shipmentVars, splitter>>

HttpChat == \E request \in ChatRequests : Serve("chat", request)
HttpChatStream == \E request \in ChatRequests : Serve("chat/stream", request)
HttpSearch == \E request \in DocumentSearchRequests : Serve("search", request)
HttpQueryShipment == \E request \in ShipmentQueryRequests : Serve("query/shipment", request)

InitHttp ==
    /\ DEBUG \in BOOLEAN
    /\ http_exchange = [endpoint |-> None]
    /\ docs_directory = "sample"
    /\ vector_store = split_documents(_get_sample_documents)
    /\ rag_state = "ready"
    /\ rag_result = [op |-> None]
    /\ AgentIdle
    /\ repertoire = {}
    /\ ToolsIdle
    /\ SingletonsIdle
    /\ ShipmentsIdle
    /\ SplitterIdle

NextHttp ==
    \/ HttpChat
    \/ HttpChatStream
    \/ HttpSearch
    \/ HttpQueryShipment

SpecHttp == InitHttp /\ [][NextHttp]_vars

\* every piece of text the caller reads in a response
Texts(response) ==
    UNION {{response.text[f][i] : i \in 1..Len(response.text[f])} :
              f \in DOMAIN response.text}

\* C15: in production mode (DEBUG false) the response of chat, chat/stream,
\* search and query/shipment to a request that met an exception does not
\* hold the exception's text, and is the response the same request would
\* have got had the exception carried any other text.
C15_NoFaultTextInProduction ==
    (/\ http_exchange.endpoint # None
     /\ ~DEBUG
     /\ http_exchange.site \in FaultSites) =>
        /\ http_exchange.e \notin Texts(http_exchange.response)
        /\ \A e2 \in FaultMessages :
              Respond(http_exchange.endpoint, http_exchange.request,
                      http_exchange.site, e2) = http_exchange.response

\* ------------------------------------------------------------------------
\* Part 6: the shipment endpoints (backend/app/routers/shipments.py) over
\* the shipments table (backend/app/models/shipment.py) and the request and
\* response schemas (backend/app/schemas/shipment.py)
\*
\* Tracking numbers and place names are sequences of characters, so that
\* str.upper, str.isalnum and SQL ILIKE are computed character by
\* character.  A row carries the columns the endpoints read or write; the
\* other columns are carried along unchanged and left out.  Every endpoint
\* is `async def` without an await: a request runs as one step.  The caller
\* is the user the authentication dependency resolved.
\* ------------------------------------------------------------------------
MaxWrites == 1   \* requests that change the table before the model stops writing
MaxSkip == 2     \* the largest skip a list request carries

tracking_min_length == 10   \* schemas/shipment.py:23
tracking_max_length == 20   \* schemas/shipment.py:23
place_min_length == 2       \* schemas/shipment.py:14-15
limit_max == 100            \* routers/shipments.py:70

Unset == "unset"

LowerLetters == <<"a", "b", "c", "d", "e", "f", "g", "h", "i", "j", "k", "l", "m", "n", "o", "p", "q", "r", "s", "t", "u", "v", "w", "x", "y", "z">>
UpperLetters == <<"A", "B", "C", "D", "E", "F", "G", "H", "I", "J", "K", "L", "M", "N", "O", "P", "Q", "R", "S", "T", "U", "V", "W", "X", "Y", "Z">>
Digits == {"0", "1", "2", "3", "4", "5", "6", "7", "8", "9"}

Occurs(seq, ch) == \E i \in 1..Len(seq) : seq[i] = ch
Position(seq, ch) == CHOOSE i \in 1..Len(seq) : seq[i] = ch

\* str.upper(), str.lower(), str.isalnum()
str_upper(str) ==
    [i \in 1..Len(str) |->
        IF Occurs(LowerLetters, str[i])
        THEN UpperLetters[Position(LowerLetters, str[i])] ELSE str[i]]
str_lower(str) ==
    [i \in 1..Len(str) |->
        IF Occurs(UpperLetters, str[i])
        THEN LowerLetters[Position(UpperLetters, str[i])] ELSE str[i]]
str_isalnum(str) ==
    /\ Len(str) > 0
    /\ \A i \in 1..Len(str) :
          Occurs(LowerLetters, str[i]) \/ Occurs(UpperLetters, str[i]) \/ str[i] \in Digits

\* SQL LIKE: % matches any run of characters, _ any one character
RECURSIVE Like(_, _)
Like(str, pattern) ==
    IF pattern = <<>> THEN str = <<>>
    ELSE IF Head(pattern) = "%"
    THEN Like(str, Tail(pattern)) \/ (str # <<>> /\ Like(Tail(str), pattern))
    ELSE /\ str # <<>>
         /\ (Head(pattern) = "_" \/ Head(pattern) = Head(str))
         /\ Like(Tail(str), Tail(pattern))

\* column.ilike(f"%{text}%")  (routers/shipments.py:95, 98, 101)
ilike(column, text) ==
    Like(str_lower(column), str_lower(<<"%">> \o text \o <<"%">>))

\* models/shipment.py:30-62  the attributes the Shipment class declares
ShipmentColumns ==
    {"id", "tracking_number", "origin", "destination", "current_location",
     "weight_kg", "dimensions", "description", "status", "created_at",
     "updated_at", "stimated_delivery", "actual_delivery", "warehouse_id",
     "driver_id", "customer_id"}

\* schemas/shipment.py:12-25  the keys of ShipmentCreate.dict()
ShipmentCreateFields ==
    {"origin", "destination", "weight_kg", "dimensions", "description",
     "tracking_number", "warehouse_id", "estimated_delivery"}

\* schemas/shipment.py:35-41
ShipmentUpdateFields ==
    {"status", "current_location", "driver_id", "estimated_delivery", "actual_delivery"}

\* schemas/shipment.py:12-18, 44-56  the fields of ShipmentResponse that
\* carry no default and so must be readable from the object returned
ShipmentResponseRequired ==
    {"origin", "destination", "weight_kg", "id", "tracking_number", "status",
     "current_location", "created_at", "updated_at", "estimated_delivery",
     "actual_delivery", "warehouse_id", "driver_id", "customer_id"}

\* models/shipment.py:13-21
ShipmentStatus ==
    {"pending", "picked_up", "in_transit", "out_for_delivery", "delivered",
     "delayed", "cancelled"}

TEST123456 == <<"T", "E", "S", "T", "1", "2", "3", "4", "5", "6">>
test123456 == <<"t", "e", "s", "t", "1", "2", "3", "4", "5", "6">>
Test123456 == <<"T", "e", "s", "t", "1", "2", "3", "4", "5", "6">>
PAGE000001 == <<"P", "A", "G", "E", "0", "0", "0", "0", "0", "1">>
PAGE000002 == <<"P", "A", "G", "E", "0", "0", "0", "0", "0", "2">>
ship789012 == <<"s", "h", "i", "p", "7", "8", "9", "0", "1", "2">>
BadNumber == <<"S", "H", "I", "P", "-", "1">>
Rome == <<"R", "o", "m", "e">>
Oslo == <<"O", "s", "l", "o">>
Lima == <<"L", "i", "m", "a">>

\* rows as tests/test_shipments.py:6-19, 109-118 insert them
Ship1 ==
    [id |-> 1, tracking_number |-> TEST123456, origin |-> Rome, destination |-> Oslo,
     status |-> "pending", current_location |-> None, actual_delivery |-> None,
     driver_id |-> None, customer_id |-> 1]
Ship2 ==
    [id |-> 2, tracking_number |-> PAGE000001, origin |-> Oslo, destination |-> Lima,
     status |-> "in_transit", current_location |-> "Oslo hub", actual_delivery |-> None,
     driver_id |-> None, customer_id |-> 2]
Ship3 ==
    [id |-> 3, tracking_number |-> PAGE000002, origin |-> Rome, destination |-> Lima,
     status |-> "pending", current_location |-> None, actual_delivery |-> None,
     driver_id |-> None, customer_id |-> 1]

Tables == {<<>>, <<Ship1>>, <<Ship1, Ship2, Ship3>>}

\* models/user.py:14-19, 28, 40  the users the authentication dependency
\* may resolve a request to
Users ==
    {[id |-> 1, role |-> "customer"], [id |-> 3, role |-> "manager"],
     [id |-> 4, role |-> "admin"], [id |-> 5, role |-> "driver"]}

Now == "2026-01-10"

\* what an endpoint leaves behind: its response, the table, the next key
Outcome(response, table, next_id) ==
    [response |-> response, table |-> table, next_id |-> next_id]

NoDetail == [detail |-> <<>>]

\* the 422 of a request that fails validation (main.py:78-89)
validation_exception_handler ==
    JSONResponse(422, [detail |-> <<"Validation error in request data">>], <<>>)

\* response_model=ShipmentResponse (routers/shipments.py:26, 126, 155, 178):
\* the object's attributes are read into ShipmentResponse; a required field
\* the object does not have fails the response
SerializeShipment(status_code, shipment, attributes) ==
    IF ShipmentResponseRequired \subseteq attributes
    THEN JSONResponse(status_code, NoDetail, shipment)
    ELSE general_exception_handler("ResponseValidationError: Field required")

\* schemas/shipment.py:14-32  ShipmentCreate: the field constraints, then
\* the validator, which returns the tracking number in upper case
ValidShipmentCreate(body) ==
    /\ Len(body.tracking_number) >= tracking_min_length
    /\ Len(body.tracking_number) <= tracking_max_length
    /\ str_isalnum(body.tracking_number)
    /\ Len(body.origin) >= place_min_length
    /\ Len(body.destination) >= place_min_length
ShipmentCreate(body) ==
    [body EXCEPT !.tracking_number = str_upper(@)]

\* the declarative constructor Shipment(**kwargs) accepts only keywords
\* that are attributes of the class (models/shipment.py:23-62)
ConstructorAccepts(keywords) == keywords \subseteq ShipmentColumns

\* routers/shipments.py:42-44  filter(tracking_number == X).first()
FirstShipmentByTracking(table, tracking_number) ==
    Take(SelectSeq(table, LAMBDA r : r.tracking_number = tracking_number), 1)
FirstShipmentById(table, shipment_id) ==
    Take(SelectSeq(table, LAMBDA r : r.id = shipment_id), 1)

\* routers/shipments.py:26-64
create_shipmentWithoutCheck(table, next_id, body, current_user) ==
    LET shipment == ShipmentCreate(body)
        db_shipment ==
            [id |-> next_id,
             tracking_number |-> str_upper(shipment.tracking_number),
             origin |-> shipment.origin, destination |-> shipment.destination,
             status |-> "pending", current_location |-> None,
             actual_delivery |-> None, driver_id |-> None,
             customer_id |-> current_user.id]
    IN IF ~ValidShipmentCreate(body)
       THEN Outcome(validation_exception_handler, table, next_id)
       ELSE IF ~ConstructorAccepts(ShipmentCreateFields \cup {"customer_id"})
       THEN Outcome(general_exception_handler(
                        "TypeError: invalid keyword argument for Shipment"),
                    table, next_id)
       ELSE Outcome(SerializeShipment(201, db_shipment, ShipmentColumns),
                    table \o <<db_shipment>>, next_id + 1)
create_shipment(table, next_id, body, current_user) ==
    LET shipment == ShipmentCreate(body)
        existing == FirstShipmentByTracking(table, str_upper(shipment.tracking_number))
        db_shipment ==
            [id |-> next_id,
             tracking_number |-> str_upper(shipment.tracking_number),
             origin |-> shipment.origin, destination |-> shipment.destination,
             status |-> "pending", current_location |-> None,
             actual_delivery |-> None, driver_id |-> None,
             customer_id |-> current_user.id]
    IN IF ~ValidShipmentCreate(body)
       THEN Outcome(validation_exception_handler, table, next_id)
       ELSE IF existing # <<>>
       THEN Outcome(HTTPException(400, <<"Tracking number already exists">>),
                    table, next_id)
       ELSE IF ~ConstructorAccepts(ShipmentCreateFields \cup {"customer_id"})
       THEN Outcome(general_exception_handler(
                        "TypeError: invalid keyword argument for Shipment"),
                    table, next_id)
       ELSE Outcome(SerializeShipment(201, db_shipment, ShipmentColumns),
                    table \o <<db_shipment>>, next_id + 1)

\* routers/shipments.py:155-175
get_shipment_by_tracking(table, tracking_number) ==
    LET shipment == FirstShipmentByTracking(table, str_upper(tracking_number))
    IN IF shipment = <<>>
       THEN HTTPException(404, <<"Shipment with tracking number not found">>)
       ELSE SerializeShipment(200, shipment[1], ShipmentColumns)

\* routers/shipments.py:69-74  the constraints on the query parameters
ValidListQuery(q) ==
    /\ q.skip >= 0
    /\ q.limit >= 1
    /\ q.limit <= limit_max
    /\ q.status = None \/ q.status \in ShipmentStatus

\* routers/shipments.py:87-123  the dictionary the handler returns; an
\* absent or empty text filter (<<>>) and an absent status (None) are falsy
\* and not applied; rows come in table order
list_shipments(table, current_user, q) ==
    LET query ==
          SelectSeq(table, LAMBDA r :
             /\ q.status # None => r.status = q.status
             /\ q.origin # <<>> => ilike(r.origin, q.origin)
             /\ q.destination # <<>> => ilike(r.destination, q.destination)
             /\ q.tracking_number # <<>> => ilike(r.tracking_number, q.tracking_number)
             /\ current_user.role \notin {"admin", "manager"} =>
                   r.customer_id = current_user.id)
        total == Len(query)
        shipments == SubSeq(query, q.skip + 1, Min(q.skip + q.limit, total))
        pages == IF total > 0 THEN (total + q.limit - 1) \div q.limit ELSE 0
        current_page == IF q.limit > 0 THEN (q.skip \div q.limit) + 1 ELSE 1
    IN [items |-> shipments, total |-> total, page |-> current_page,
        size |-> q.limit, pages |-> pages]

\* response_model=ShipmentListResponse (routers/shipments.py:67,
\* schemas/shipment.py:62-68): every item is read into ShipmentResponse
SerializeShipmentList(returned, attributes) ==
    IF returned.items = <<>> \/ ShipmentResponseRequired \subseteq attributes
    THEN JSONResponse(200, NoDetail, returned)
    ELSE general_exception_handler("ResponseValidationError: Field required")

\* the table with the row of the given key replaced / removed
Replace(table, row) ==
    [i \in 1..Len(table) |-> IF table[i].id = row.id THEN row ELSE table[i]]
Remove(table, shipment_id) ==
    SelectSeq(table, LAMBDA r : r.id # shipment_id)

\* an endpoint that raises HTTPException: the table is as it was
HTTPOutcome(status_code, detail, table) ==
    [response |-> HTTPException(status_code, <<detail>>), table |-> table]

\* routers/shipments.py:178-223; update holds Unset for a field the request
\* did not set.  setattr stores every set field on the object; the fields
\* that are columns reach the table.
update_shipment(table, shipment_id, update, current_user) ==
    LET found == FirstShipmentById(table, shipment_id)
        shipment == found[1]
        update_data == {f \in ShipmentUpdateFields : update[f] # Unset}
        set ==
          [shipment EXCEPT
             !.status = IF "status" \in update_data THEN update.status ELSE @,
             !.current_location =
                 IF "current_location" \in update_data THEN update.current_location ELSE @,
             !.driver_id = IF "driver_id" \in update_data THEN update.driver_id ELSE @,
             !.actual_delivery =
                 IF "actual_delivery" \in update_data THEN update.actual_delivery ELSE @]
        updated ==
          IF update.status = "delivered" /\ set.actual_delivery = None
          THEN [set EXCEPT !.actual_delivery = Now] ELSE set
    IN IF current_user.role \notin {"admin", "manager"}
       THEN HTTPOutcome(403, "Not authorized to update shipments", table)
       ELSE IF found = <<>>
       THEN HTTPOutcome(404, "Shipment with ID not found", table)
       ELSE [response |-> SerializeShipment(200, updated, ShipmentColumns \cup update_data),
             table |-> Replace(table, updated)]

\* routers/shipments.py:226-256
delete_shipmentLooksUpFirst(table, shipment_id, current_user) ==
    IF FirstShipmentById(table, shipment_id) = <<>>
    THEN HTTPOutcome(404, "Shipment with ID not found", table)
    ELSE IF current_user.role # "admin"
    THEN HTTPOutcome(403, "Not authorized to delete shipments", table)
    ELSE [response |-> JSONResponse(204, NoDetail, <<>>),
          table |-> Remove(table, shipment_id)]
delete_shipment(table, shipment_id, current_user) ==
    IF current_user.role # "admin"
    THEN HTTPOutcome(403, "Not authorized to delete shipments", table)
    ELSE IF FirstShipmentById(table, shipment_id) = <<>>
    THEN HTTPOutcome(404, "Shipment with ID not found", table)
    ELSE [response |-> JSONResponse(204, NoDetail, <<>>),
          table |-> Remove(table, shipment_id)]

\* routers/shipments.py:126-152
get_shipmentWithoutOwnerCheck(table, shipment_id, current_user) ==
    LET found == FirstShipmentById(table, shipment_id)
    IN IF found = <<>>
       THEN HTTPException(404, <<"Shipment with ID not found">>)
       ELSE SerializeShipment(200, found[1], ShipmentColumns)
get_shipment(table, shipment_id, current_user) ==
    LET found == FirstShipmentById(table, shipment_id)
    IN IF found = <<>>
       THEN HTTPException(404, <<"Shipment with ID not found">>)
       ELSE IF /\ current_user.role \notin {"admin", "manager"}
               /\ found[1].customer_id # current_user.id
       THEN HTTPException(403, <<"Not authorized to view this shipment">>)
       ELSE SerializeShipment(200, found[1], ShipmentColumns)

\* routers/shipments.py:259-295; the route declares no response model, the
\* dictionary is the response.  Every row of the table was inserted within
\* the last seven days (created_at defaults to the time of the insert).
get_shipment_statistics(table, current_user) ==
    LET query ==
          SelectSeq(table, LAMBDA r :
             current_user.role \notin {"admin", "manager"} =>
                 r.customer_id = current_user.id)
        count(status) == Len(SelectSeq(query, LAMBDA r : r.status = status))
    IN JSONResponse(200, NoDetail,
          [total_shipments |-> Len(query),
           by_status |-> [pending |-> count("pending"),
                          in_transit |-> count("in_transit"),
                          delivered |-> count("delivered"),
                          delayed |-> count("delayed")],
           recent_shipments_7days |-> Len(query)])

\* ---- the requests the model sends
CreateBodies ==
    [tracking_number : {ship789012, TEST123456, test123456, Test123456, BadNumber},
     origin : {Rome}, destination : {Oslo},
     estimated_delivery : {None}]

NotSet ==
    [status |-> Unset, current_location |-> Unset, driver_id |-> Unset,
     estimated_delivery |-> Unset, actual_delivery |-> Unset]
UpdateBodies ==
    {[NotSet EXCEPT !.status = "in_transit", !.current_location = "Lima hub"],
     [NotSet EXCEPT !.status = "delivered", !.actual_delivery = "2026-01-09"],
     [NotSet EXCEPT !.status = "delivered"],
     [NotSet EXCEPT !.actual_delivery = None]}

\* the table after a manager has marked its one shipment as delivered
DeliveredTable ==
    update_shipment(<<Ship1>>, 1, [NotSet EXCEPT !.status = "delivered"],
                    [id |-> 3, role |-> "manager"]).table
ShipmentIds == {1, 2, 9}

TrackingLookups == {TEST123456, test123456, Test123456, ship789012, PAGE000001}

NoFilter ==
    [status |-> None, origin |-> <<>>, destination |-> <<>>, tracking_number |-> <<>>]
Filters ==
    {NoFilter,
     [NoFilter EXCEPT !.status = "pending"],
     [NoFilter EXCEPT !.origin = <<"o", "m">>],
     [NoFilter EXCEPT !.origin = <<"_">>],
     [NoFilter EXCEPT !.destination = <<"L", "I">>],
     [NoFilter EXCEPT !.tracking_number = <<"p", "a", "g", "e">>],
     [NoFilter EXCEPT !.status = "pending", !.destination = <<"l", "i", "m">>]}
ListQuery(skip, limit, filter) ==
    [skip |-> skip, limit |-> limit, status |-> filter.status,
     origin |-> filter.origin, destination |-> filter.destination,
     tracking_number |-> filter.tracking_number]
ListQueries ==
    {ListQuery(skip, limit, filter) :
        skip \in 0..MaxSkip, limit \in {2, limit_max},
        filter \in {NoFilter, [NoFilter EXCEPT !.status = "pending"]}}
    \cup {ListQuery(0, limit_max, filter) : filter \in Filters}
    \cup {ListQuery(-1, 2, NoFilter), ListQuery(0, 0, NoFilter),
          ListQuery(0, limit_max + 1, NoFilter)}

\* ---- the endpoints as steps
Written(table) == IF table = db_shipments THEN db_writes ELSE db_writes + 1

CreateShipment ==
    \E current_user \in Users, body \in CreateBodies :
       LET out == create_shipment(db_shipments, next_shipment_id, body, current_user)
       IN /\ Written(out.table) <= MaxWrites
          /\ db_shipments' = out.table
          /\ next_shipment_id' = out.next_id
          /\ db_writes' = Written(out.table)
          /\ ship_exchange' = [endpoint |-> "create", current_user |-> current_user,
                               request |-> body, response |-> out.response]
          /\ UNCHANGED notShipmentVars

GetShipmentByTracking ==
    \E tracking_number \in TrackingLookups :
       /\ ship_exchange' =
             [endpoint |-> "tracking", request |-> tracking_number,
              response |-> get_shipment_by_tracking(db_shipments, tracking_number)]
       /\ UNCHANGED <<db_shipments, next_shipment_id, db_writes, notShipmentVars>>

ListShipments ==
    \E current_user \in Users, q \in ListQueries :
       /\ ship_exchange' =
             IF ValidListQuery(q)
             THEN LET returned == list_shipments(db_shipments, current_user, q)
                  IN [endpoint |-> "list", current_user |-> current_user, request |-> q,
                      returned |-> returned,
                      response |-> SerializeShipmentList(returned, ShipmentColumns)]
             ELSE [endpoint |-> "list", current_user |-> current_user, request |-> q,
                   returned |-> [items |-> <<>>],
                   response |-> validation_exception_handler]
       /\ UNCHANGED <<db_shipments, next_shipment_id, db_writes, notShipmentVars>>

GetShipment ==
    \E current_user \in Users, shipment_id \in ShipmentIds :
       /\ ship_exchange' =
             [endpoint |-> "get", current_user |-> current_user,
              request |-> shipment_id,
              response |-> get_shipment(db_shipments, shipment_id, current_user)]
       /\ UNCHANGED <<db_shipments, next_shipment_id, db_writes, notShipmentVars>>

GetShipmentStatistics ==
    \E current_user \in Users :
       /\ ship_exchange' =
             [endpoint |-> "statistics", current_user |-> current_user,
              response |-> get_shipment_statistics(db_shipments, current_user)]
       /\ UNCHANGED <<db_shipments, next_shipment_id, db_writes, notShipmentVars>>

UpdateShipment ==
    \E current_user \in Users, shipment_id \in ShipmentIds, update \in UpdateBodies :
       LET out == update_shipment(db_shipments, shipment_id, update, current_user)
       IN /\ Written(out.table) <= MaxWrites
          /\ db_shipments' = out.table
          /\ db_writes' = Written(out.table)
          /\ ship_exchange' = [endpoint |-> "update", current_user |-> current_user,
                               request |-> [shipment_id |-> shipment_id, update |-> update],
                               response |-> out.response]
          /\ UNCHANGED <<next_shipment_id, notShipmentVars>>

DeleteShipment ==
    \E current_user \in Users, shipment_id \in ShipmentIds :
       LET out == delete_shipment(db_shipments, shipment_id, current_user)
       IN /\ Written(out.table) <= MaxWrites
          /\ db_shipments' = out.table
          /\ db_writes' = Written(out.table)
          /\ ship_exchange' = [endpoint |-> "delete", current_user |-> current_user,
                               request |-> shipment_id, response |-> out.response]
          /\ UNCHANGED <<next_shipment_id, notShipmentVars>>

\* the table as the process finds it: rows inserted before, as the tests do
InitShipments ==
    /\ HttpIdle
    /\ db_shipments \in Tables \cup {DeliveredTable}
    /\ next_shipment_id = Len(db_shipments) + 1
    /\ db_writes = 0
    /\ ship_exchange = [endpoint |-> None]
    /\ AgentIdle
    /\ repertoire = {}
    /\ ToolsIdle
    /\ SingletonsIdle
    /\ RagIdle
    /\ SplitterIdle

NextShipments ==
    \/ CreateShipment
    \/ GetShipmentByTracking
    \/ ListShipments
    \/ GetShipment
    \/ GetShipmentStatistics
    \/ UpdateShipment
    \/ DeleteShipment

SpecShipments == InitShipments /\ [][NextShipments]_vars

\* ------------------------------------------------------------------------
\* Properties of the shipment endpoints
\* ------------------------------------------------------------------------
TrackingNumbersUnique ==
    \A i \in 1..Len(db_shipments), j \in 1..Len(db_shipments) :
        i # j => db_shipments[i].tracking_number # db_shipments[j].tracking_number

\* C16: no two stored shipments ever have the same tracking number, and a
\* create request whose tracking number equals, ignoring letter case, that
\* of a stored shipment is answered 400 and leaves the table as it was.
C16_TrackingNumbersUnique ==
    /\ []TrackingNumbersUnique
    /\ [][(/\ ship_exchange'.endpoint = "create"
           /\ \E i \in 1..Len(db_shipments) :
                 str_lower(db_shipments[i].tracking_number)
                     = str_lower(ship_exchange'.request.tracking_number)) =>
             /\ ship_exchange'.response.status_code = 400
             /\ db_shipments' = db_shipments]_vars

C16_Witness ==
    /\ ship_exchange.endpoint = "create"
    /\ ship_exchange.request.tracking_number = test123456
    /\ ship_exchange.response.status_code = 400
    /\ db_writes >= 1
    /\ Len(db_shipments) >= 2

\* C17: a valid create request with an unused tracking number is answered
\* 201 and adds exactly one shipment: pending, its tracking number the
\* request's in upper case, origin and destination the request's, and
\* customer_id the caller's id.
C17_CreateAddsPendingShipment ==
    [][(/\ ship_exchange'.endpoint = "create"
        /\ ValidShipmentCreate(ship_exchange'.request)
        /\ \A i \in 1..Len(db_shipments) :
              db_shipments[i].tracking_number
                  # str_upper(ship_exchange'.request.tracking_number)) =>
          /\ ship_exchange'.response.status_code = 201
          /\ Len(db_shipments') = Len(db_shipments) + 1
          /\ SubSeq(db_shipments', 1, Len(db_shipments)) = db_shipments
          /\ LET new == db_shipments'[Len(db_shipments')]
                 request == ship_exchange'.request
             IN /\ new.status = "pending"
                /\ new.tracking_number = str_upper(request.tracking_number)
                /\ new.origin = request.origin
                /\ new.destination = request.destination
                /\ new.customer_id = ship_exchange'.current_user.id]_vars

\* C18: a lookup on the public tracking endpoint that follows a valid create
\* request for the same tracking number, in any letter case, is answered 200
\* with that shipment; a lookup of a number no shipment has is answered 404.
C18_TrackingRoundTrip ==
    [][ship_exchange'.endpoint = "tracking" =>
          LET t == ship_exchange'.request
              response == ship_exchange'.response
              created ==
                 /\ ship_exchange.endpoint = "create"
                 /\ ValidShipmentCreate(ship_exchange.request)
                 /\ str_upper(ship_exchange.request.tracking_number) = str_upper(t)
              stored ==
                 \E i \in 1..Len(db_shipments) :
                    db_shipments[i].tracking_number = str_upper(t)
          IN /\ created =>
                   /\ response.status_code = 200
                   /\ response.data.tracking_number = str_upper(t)
             /\ (~created /\ ~stored) => response.status_code = 404]_vars

\* the rows of the table a caller may see
Visible(current_user) ==
    {i \in 1..Len(db_shipments) :
        current_user.role \in {"admin", "manager"}
            \/ db_shipments[i].customer_id = current_user.id}

\* C19: a list request with skip >= 0 and limit in 1..100 is answered with
\* exactly min(limit, max(0, total - skip)) items; total does not depend on
\* skip or limit and, without text filters, is the number of visible rows of
\* the requested status; pages = ceil(total / limit); page = skip div limit + 1.
C19_ListPagination ==
    (ship_exchange.endpoint = "list" /\ ValidListQuery(ship_exchange.request)) =>
        LET q == ship_exchange.request
            current_user == ship_exchange.current_user
            response == ship_exchange.response
        IN /\ response.status_code = 200
           /\ LET total == response.data.total
              IN /\ Len(response.data.items)
                      = Min(q.limit, IF total > q.skip THEN total - q.skip ELSE 0)
                 /\ \A skip \in 0..MaxSkip, limit \in {1, 2, limit_max} :
                       list_shipments(db_shipments, current_user,
                                      [q EXCEPT !.skip = skip, !.limit = limit]).total
                           = total
                 /\ (q.origin = <<>> /\ q.destination = <<>> /\ q.tracking_number = <<>>) =>
                       total = Cardinality({i \in Visible(current_user) :
                                              q.status # None =>
                                                  db_shipments[i].status = q.status})
                 /\ response.data.pages * q.limit >= total
                 /\ (response.data.pages - 1) * q.limit < total \/ total = 0
                 /\ total = 0 => response.data.pages = 0
                 /\ response.data.page = (q.skip \div q.limit) + 1

\* text occurs in column, ignoring letter case
ContainsIgnoringCase(column, text) ==
    \E i \in 1..(Len(column) - Len(text) + 1) :
        SubSeq(str_lower(column), i, i + Len(text) - 1) = str_lower(text)

\* C20: every shipment list_shipments returns satisfies every filter of the
\* request: it has exactly the requested status, and its origin,
\* destination and tracking number contain the requested texts, ignoring
\* letter case.
C20_ListedShipmentsMatchFilters ==
    (ship_exchange.endpoint = "list" /\ ValidListQuery(ship_exchange.request)) =>
        LET q == ship_exchange.request
            items == ship_exchange.returned.items
        IN \A i \in 1..Len(items) :
              /\ q.status # None => items[i].status = q.status
              /\ q.origin # <<>> => ContainsIgnoringCase(items[i].origin, q.origin)
              /\ q.destination # <<>> =>
                    ContainsIgnoringCase(items[i].destination, q.destination)
              /\ q.tracking_number # <<>> =>
                    ContainsIgnoringCase(items[i].tracking_number, q.tracking_number)

\* the rows of the table that belong to a user
OwnedBy(current_user) ==
    {i \in 1..Len(db_shipments) : db_shipments[i].customer_id = current_user.id}

\* C21: for a caller who is neither admin nor manager, list_shipments
\* returns only shipments whose customer_id is the caller's id, get_shipment
\* answers 403 for a shipment another user owns, and the statistics overview
\* counts the caller's shipments and no others.
C21_CallersSeeOnlyTheirOwn ==
    (/\ ship_exchange.endpoint \in {"list", "get", "statistics"}
     /\ ship_exchange.current_user.role \notin {"admin", "manager"}) =>
        LET current_user == ship_exchange.current_user
            response == ship_exchange.response
        IN /\ ship_exchange.endpoint = "list" =>
                 /\ \A i \in 1..Len(ship_exchange.returned.items) :
                       ship_exchange.returned.items[i].customer_id = current_user.id
                 /\ response.status_code = 200 =>
                       \A i \in 1..Len(response.data.items) :
                          response.data.items[i].customer_id = current_user.id
           /\ ship_exchange.endpoint = "get" =>
                 /\ (\E i \in 1..Len(db_shipments) :
                        /\ db_shipments[i].id = ship_exchange.request
                        /\ db_shipments[i].customer_id # current_user.id) =>
                       response.status_code = 403
                 /\ response.status_code = 200 =>
                       response.data.customer_id = current_user.id
           /\ ship_exchange.endpoint = "statistics" =>
                 /\ response.status_code = 200
                 /\ response.data.total_shipments = Cardinality(OwnedBy(current_user))
                 /\ \A status \in {"pending", "in_transit", "delivered", "delayed"} :
                       response.data.by_status[status] =
                          Cardinality({i \in OwnedBy(current_user) :
                                          db_shipments[i].status = status})

C21_Witness ==
    /\ ship_exchange.endpoint = "get"
    /\ ship_exchange.current_user.role = "customer"
    /\ ship_exchange.request = 2
    /\ ship_exchange.response.status_code = 403
    /\ Len(db_shipments) = 3

\* C22: update_shipment changes a shipment only for an admin or a manager
\* and delete_shipment removes one only for an admin; a request by any
\* other role is answered 403 and leaves every shipment as it was, also
\* when no shipment has the id.
C22_WritesNeedRole ==
    [][/\ (/\ ship_exchange'.endpoint = "update"
           /\ ship_exchange'.current_user.role \notin {"admin", "manager"}) =>
             /\ ship_exchange'.response.status_code = 403
             /\ db_shipments' = db_shipments
       /\ (/\ ship_exchange'.endpoint = "delete"
           /\ ship_exchange'.current_user.role # "admin") =>
             /\ ship_exchange'.response.status_code = 403
             /\ db_shipments' = db_shipments
       /\ (ship_exchange'.endpoint \in {"update", "delete"}
              /\ db_shipments' # db_shipments) =>
             ship_exchange'.current_user.role \in
                 (IF ship_exchange'.endpoint = "update"
                  THEN {"admin", "manager"} ELSE {"admin"})]_vars

C22_Witness ==
    /\ ship_exchange.endpoint = "delete"
    /\ ship_exchange.current_user.role = "manager"
    /\ ship_exchange.request = 9
    /\ ship_exchange.response.status_code = 403
    /\ db_writes = 1

\* ------------------------------------------------------------------------
\* Properties of the AI endpoints: authentication
\* ------------------------------------------------------------------------
\* C23: a chat request that carries no valid token is answered 401, the
\* agent is not invoked for it, and the conversation history stays as it
\* was.
C23_ChatRequiresAuthentication ==
    [][(/\ http_exchange'.endpoint = "chat"
        /\ http_exchange'.token # "valid") =>
          /\ http_exchange'.response.status_code = 401
          /\ ~http_exchange'.agent_invoked
          /\ chat_history' = chat_history]_vars

C23_Witness ==
    /\ http_exchange.endpoint = "chat"
    /\ http_exchange.token = "invalid"
    /\ http_exchange.response.status_code = 401
    /\ ~http_exchange.agent_invoked
    /\ chat_history # <<>>

\* ------------------------------------------------------------------------
\* Termination of a chat call
\*
\* Every model call and every tool call returns: a call that awaits the
\* model gets an answer, a tool request, a fault or an unparseable response
\* (or the executor finds its budget spent), and a dispatched tool call
\* ends.  Nothing is assumed about what the model answers.
\* ------------------------------------------------------------------------
ModelCallReturns(c) ==
    \/ ModelFinalAnswer(c)
    \/ ModelRequestsTool(c)
    \/ ModelCallFails(c)
    \/ ModelResponseUnparseable(c)
    \/ IterationCapStop(c)

ToolCallReturns(c) ==
    \/ DispatchTool(c)
    \/ DispatchUnknownTool(c)
    \/ DispatchInvalidArguments(c)

\* one client that sends its chat requests one after the other (request
\* slot 1), clearing the memory when it likes
NextLive ==
    \/ ChatStart(1)
    \/ ModelCallReturns(1)
    \/ ToolCallReturns(1)
    \/ TimeCapStop(1)
    \/ Deliver(1)
    \/ \E conv \in ConversationIds : ClearConversation(conv)

SpecLive ==
    /\ Init
    /\ [][NextLive]_vars
    /\ WF_vars(ModelCallReturns(1))
    /\ WF_vars(ToolCallReturns(1))

\* C25: every chat call that has entered the executor eventually returns,
\* as Done (a final answer) or aborted (on a fault, or on its spent
\* iteration or time budget): the call does not alternate between
\* Awaiting-Model and Dispatching-Tool for ever, whatever the model answers.
C25_ChatTerminates ==
    (calls[1].pc \in {"AwaitingModel", "DispatchingTool"})
        ~> (/\ calls[1].pc = "returned"
            /\ calls[1].state \in {"Done", "Aborted", "BudgetExceeded"})

C25_Witness ==
    /\ calls[1].pc = "returned"
    /\ calls[1].state = "BudgetExceeded"
    /\ calls[1].model_calls = max_iterations
    /\ Len(calls[1].intermediate_steps) = max_iterations
    /\ calls[1].response.message = StoppedOutput

\* ------------------------------------------------------------------------
\* Part 7: the text splitter (backend/app/ai/rag.py:122-129)
\*
\* RecursiveCharacterTextSplitter(chunk_size=1000, chunk_overlap=200,
\* separators=["\n\n", "\n", " ", ""]) splits a text at the first separator
\* of the list that occurs in it, keeps each separator at the head of the
\* piece that follows it, and merges the pieces into chunks: pieces are
\* appended to the current chunk while it stays within chunk_size; when the
\* next piece does not fit, the chunk is emitted and pieces are dropped
\* from its front until at most chunk_overlap characters are left and the
\* next piece fits.  An emitted chunk is the concatenation of its pieces
\* with leading and trailing whitespace stripped.
\*
\* A document is the pieces its first occurring separator cuts it into:
\* n pieces, every piece but the first headed by `lead` separator
\* characters, each with `body` further characters (`last_body` for the
\* last).  A chunk is the slice <<from, to>> of the document it holds.
\* The documents are 2400 characters long and none of their pieces exceeds
\* chunk_size, so no piece is split again at a later separator.
\* ------------------------------------------------------------------------
Documents ==
    {[name |-> "unbroken", n |-> 2400, lead |-> 0, body |-> 1, last_body |-> 1],
     [name |-> "words", n |-> 343, lead |-> 1, body |-> 6, last_body |-> 6],
     [name |-> "paragraphs", n |-> 8, lead |-> 2, body |-> 298, last_body |-> 300]}

\* len(piece i) and the offset of piece i in the document (piece n + 1
\* starts where the document ends)
PieceLength(doc, i) ==
    (IF i = 1 THEN 0 ELSE doc.lead) + (IF i = doc.n THEN doc.last_body ELSE doc.body)
PieceStart(doc, i) ==
    IF i = 1 THEN 0
    ELSE IF i <= doc.n THEN doc.body + (i - 2) * (doc.lead + doc.body)
    ELSE doc.body + (doc.n - 2) * (doc.lead + doc.body) + doc.lead + doc.last_body
DocumentLength(doc) == PieceStart(doc, doc.n + 1)

\* "".join(pieces first..last).strip(): the separator at the head of the
\* first piece is whitespace and is stripped
_join_docs(doc, first, last) ==
    <<PieceStart(doc, first) + (IF first = 1 THEN 0 ELSE doc.lead),
      PieceStart(doc, last + 1)>>

\* the piece of length len does not fit the current chunk of length total
Overflows(total, len) == total + len > chunk_size

\* the condition of the loop that drops pieces from the front of the chunk
KeepsDroppingToChunkSize(total, len) ==
    total > chunk_size \/ (Overflows(total, len) /\ total > 0)
KeepsDropping(total, len) ==
    total > chunk_overlap \/ (Overflows(total, len) /\ total > 0)

\* split_documents is handed a document: the for loop over its pieces starts
SplitText ==
    /\ splitter.pc = "idle"
    /\ \E doc \in Documents :
         splitter' = [pc |-> "for", document |-> doc, d |-> 1, first |-> 1,
                      total |-> 0, docs |-> <<>>]
    /\ UNCHANGED <<agentVars, toolVars, singletonVars, ragVars, httpVars, shipmentVars>>

\* the next piece does not fit and the chunk is not empty: emit the chunk
EmitChunk ==
    /\ splitter.pc = "for"
    /\ splitter.d <= splitter.document.n
    /\ Overflows(splitter.total, PieceLength(splitter.document, splitter.d))
    /\ splitter.first < splitter.d
    /\ splitter' = [splitter EXCEPT
                      !.pc = "while",
                      !.docs = Append(@, _join_docs(splitter.document, splitter.first,
                                                    splitter.d - 1))]
    /\ UNCHANGED <<agentVars, toolVars, singletonVars, ragVars, httpVars, shipmentVars>>

\* one round of the while loop: the first piece of the chunk is dropped
DropFirst ==
    /\ splitter.pc = "while"
    /\ KeepsDropping(splitter.total, PieceLength(splitter.document, splitter.d))
    /\ splitter' = [splitter EXCEPT
                      !.total = @ - PieceLength(splitter.document, splitter.first),
                      !.first = @ + 1]
    /\ UNCHANGED <<agentVars, toolVars, singletonVars, ragVars, httpVars, shipmentVars>>

\* current_doc.append(d); total += len(d)
AppendSplit ==
    /\ \/ /\ splitter.pc = "while"
          /\ ~KeepsDropping(splitter.total, PieceLength(splitter.document, splitter.d))
       \/ /\ splitter.pc = "for"
          /\ splitter.d <= splitter.document.n
          /\ ~(/\ Overflows(splitter.total, PieceLength(splitter.document, splitter.d))
               /\ splitter.first < splitter.d)
    /\ splitter' = [splitter EXCEPT
                      !.pc = "for",
                      !.total = @ + PieceLength(splitter.document, splitter.d),
                      !.d = @ + 1]
    /\ UNCHANGED <<agentVars, toolVars, singletonVars, ragVars, httpVars, shipmentVars>>

\* the loop is over: what is left is the last chunk
FinishSplit ==
    /\ splitter.pc = "for"
    /\ splitter.d > splitter.document.n
    /\ splitter' = [splitter EXCEPT
                      !.pc = "done",
                      !.docs = IF splitter.first < splitter.d
                               THEN Append(@, _join_docs(splitter.document,
                                                         splitter.first, splitter.d - 1))
                               ELSE @]
    /\ UNCHANGED <<agentVars, toolVars, singletonVars, ragVars, httpVars, shipmentVars>>

InitSplitter ==
    /\ SplitterIdle
    /\ AgentIdle
    /\ repertoire = {}
    /\ ToolsIdle
    /\ SingletonsIdle
    /\ RagIdle
    /\ HttpIdle
    /\ ShipmentsIdle

NextSplitter ==
    \/ SplitText
    \/ EmitChunk
    \/ DropFirst
    \/ AppendSplit
    \/ FinishSplit

SpecSplitter == InitSplitter /\ [][NextSplitter]_vars

\* ------------------------------------------------------------------------
\* Properties of the text splitter
\* ------------------------------------------------------------------------
\* the chunks concatenated in order, each without the part it shares with
\* the chunk before it: the slices of the document the result is made of
RECURSIVE WithoutOverlaps(_, _)
WithoutOverlaps(docs, covered) ==
    IF docs = <<>> THEN <<>>
    ELSE LET from == IF docs[1][1] < covered THEN covered ELSE docs[1][1]
         IN <<(<<from, docs[1][2]>>)>> \o WithoutOverlaps(Tail(docs), docs[1][2])

\* the slices follow one another without a gap from 0 to length
RECURSIVE Reconstructs(_, _, _)
Reconstructs(slices, at, length) ==
    IF slices = <<>> THEN at = length
    ELSE slices[1][1] = at /\ Reconstructs(Tail(slices), slices[1][2], length)

TurnsOf(hist, conv) == SelectSeq(hist, LAMBDA t : t.conv = conv)

\* C26: clearing conversation X through the clear-conversation endpoint
\* leaves the turns of every conversation other than X as they were.
C26_ClearLeavesOthers ==
    [][last_op'.op = "clear" =>
          \A conv \in ConversationIds \ {last_op'.conv} :
              TurnsOf(chat_history', conv) = TurnsOf(chat_history, conv)]_vars

\* ------------------------------------------------------------------------
\* Properties of the shipment endpoints: the delivery time
\* ------------------------------------------------------------------------
\* C27: a shipment whose status is delivered has its actual_delivery time
\* set, in every state create and update requests lead to; and an update
\* that sets the status to delivered and names no delivery time stamps the
\* current time if none is set and leaves a time that is set as it was.
C27_DeliveredHasDeliveryTime ==
    /\ [](\A i \in 1..Len(db_shipments) :
             db_shipments[i].status = "delivered" =>
                 db_shipments[i].actual_delivery # None)
    /\ [][(/\ ship_exchange'.endpoint = "update"
           /\ ship_exchange'.request.update.status = "delivered"
           /\ ship_exchange'.request.update.actual_delivery = Unset
           /\ ship_exchange'.current_user.role \in {"admin", "manager"}) =>
             \A i \in 1..Len(db_shipments) :
                db_shipments[i].id = ship_exchange'.request.shipment_id =>
                    db_shipments'[i].actual_delivery =
                        IF db_shipments[i].actual_delivery = None THEN Now
                        ELSE db_shipments[i].actual_delivery]_vars

\* C28: every database session a tool opens is closed before the tool
\* returns, on every path - also when the query raises and the tool hands
\* back its fallback string; no invocation leaves a session open.
C28_ToolsCloseTheirSessions ==
    /\ open_sessions = 0
    /\ tool_result.tool # None =>
          tool_result.outcome.opened = tool_result.outcome.closed

\* C29: LogisticsRAG() ingests documents only when the persisted collection
\* holds no chunk: an initialization that finds a non-empty collection
\* leaves its number of chunks as it was, on every path of
\* _initialize_vector_store, the except branch included.
C29_InitializationKeepsNonEmptyIndex ==
    [][(rag_result'.op = "init" /\ Len(vector_store) > 0) =>
          Len(vector_store') = Len(vector_store)]_vars

\* the events of a stream by kind, and whether its chunk events are
\* consecutive slices of at most stream_chunk_size characters that put
\* together give the message from its first character to its last
EventsOf(events, kind) == SelectSeq(events, LAMBDA ev : ev.event = kind)
ChunksSpell(events, message) ==
    LET chunks == EventsOf(events, "chunk")
        n == Len(chunks)
    IN /\ \A i \in 1..n :
             /\ chunks[i].chunk[1] = message
             /\ chunks[i].chunk[3] - chunks[i].chunk[2] <= stream_chunk_size
             /\ chunks[i].chunk[2] = (IF i = 1 THEN 0 ELSE chunks[i - 1].chunk[3])
       /\ (IF n = 0 THEN 0 ELSE chunks[n].chunk[3]) = MessageLength(message)
StreamCompletes(events, message) ==
    /\ ChunksSpell(events, message)
    /\ Len(EventsOf(events, "done")) = 1
    /\ events[Len(events)].event = "done"
    /\ Len(EventsOf(events, "error")) = 0

\* C30: the streaming chat endpoint emits chunk events of at most 20
\* characters whose concatenation in emission order is the message, then
\* exactly one done event; when the run meets an error it emits one error
\* event and no done event.
C30_StreamEvents ==
    (/\ http_exchange.endpoint = "chat/stream"
     /\ http_exchange.agent_invoked) =>
        LET events == http_exchange.response.data
        IN IF http_exchange.site = "run"
           THEN /\ Len(EventsOf(events, "error")) = 1
                /\ Len(EventsOf(events, "done")) = 0
           ELSE StreamCompletes(events,
                                IF http_exchange.site = "stop" THEN StoppedOutput
                                ELSE "answer")

\* what the stream of a failed run is: the chunks of the apology, then done
FailedRunStreamsApology ==
    (/\ http_exchange.endpoint = "chat/stream"
     /\ http_exchange.agent_invoked) =>
        StreamCompletes(http_exchange.response.data,
                        CASE http_exchange.site = "run" -> Apology
                          [] http_exchange.site = "stop" -> StoppedOutput
                          [] OTHER -> "answer")

====
